---- MODULE Spec2Model ----
(***************************************************************************)
(* A model of the media downloader: the /api/process and /api/info routes  *)
(* of src/src/server.ts (the revision with cookies, sub-folders and        *)
(* SoundCloud support, lines 296-684), the HookManager of                  *)
(* src/unnamed/part_003 and the three hooks (TiktokHook, SlackHook,        *)
(* WebhookHook) it registers.                                              *)
(*                                                                         *)
(* Text is modelled as a sequence of one-character strings, so that        *)
(* trimming, splitting on newlines and the path functions are computed     *)
(* the way the code computes them.  URLs and tokens of the hooks are       *)
(* atomic strings, "" being the empty (falsy) string.  An optional value   *)
(* (undefined in the source) is a sequence of length 0 or 1.               *)
(***************************************************************************)
EXTENDS Integers, Sequences, FiniteSets, TLC

(***************************************************************************)
(* String functions of the JavaScript runtime and of the path module.      *)
(***************************************************************************)

\* The characters String.prototype.trim removes.
IsWhite(c) == c \in {" ", "\t", "\n", "\r"}

RECURSIVE TrimStart(_)
TrimStart(s) ==
    IF s = <<>> THEN <<>>
    ELSE IF IsWhite(Head(s)) THEN TrimStart(Tail(s)) ELSE s

RECURSIVE TrimEnd(_)
TrimEnd(s) ==
    IF s = <<>> THEN <<>>
    ELSE IF IsWhite(s[Len(s)]) THEN TrimEnd(SubSeq(s, 1, Len(s) - 1)) ELSE s

\* String.prototype.trim
Trim(s) == TrimEnd(TrimStart(s))

\* The index of the first c in s, 0 when there is none.
IndexOf(s, c) ==
    IF \E i \in 1..Len(s) : s[i] = c
    THEN CHOOSE i \in 1..Len(s) : s[i] = c /\ \A j \in 1..(i - 1) : s[j] # c
    ELSE 0

\* The index of the last c in s, 0 when there is none.
LastIndexOf(s, c) ==
    IF \E i \in 1..Len(s) : s[i] = c
    THEN CHOOSE i \in 1..Len(s) : s[i] = c /\ \A j \in (i + 1)..Len(s) : s[j] # c
    ELSE 0

\* String.prototype.split('\n'): always at least one piece.
RECURSIVE SplitLines(_)
SplitLines(s) ==
    LET i == IndexOf(s, "\n")
    IN  IF i = 0 THEN <<s>>
        ELSE <<SubSeq(s, 1, i - 1)>> \o SplitLines(SubSeq(s, i + 1, Len(s)))

\* Array.prototype.join('\n')
RECURSIVE JoinLines(_)
JoinLines(ls) ==
    IF ls = <<>> THEN <<>>
    ELSE IF Len(ls) = 1 THEN ls[1]
    ELSE LET half == Len(ls) \div 2
         IN  JoinLines(SubSeq(ls, 1, half)) \o <<"\n">>
             \o JoinLines(SubSeq(ls, half + 1, Len(ls)))

\* String.prototype.endsWith
EndsWith(s, suffix) ==
    /\ Len(s) >= Len(suffix)
    /\ SubSeq(s, Len(s) - Len(suffix) + 1, Len(s)) = suffix

\* path.isAbsolute (posix)
IsAbsolute(p) == Len(p) > 0 /\ p[1] = "/"

RECURSIVE StripSlashes(_)
StripSlashes(p) ==
    IF p # <<>> /\ p[Len(p)] = "/" THEN StripSlashes(SubSeq(p, 1, Len(p) - 1)) ELSE p

\* path.basename(p) (posix): the part after the last separator, trailing
\* separators ignored.
Basename(p) ==
    LET q == StripSlashes(p)
    IN  SubSeq(q, LastIndexOf(q, "/") + 1, Len(q))

\* path.extname(p) (posix): from the last "." of the base name to its end;
\* empty when there is no "." or when the only "." opens the base name.
Extname(p) ==
    LET b == Basename(p)
        i == LastIndexOf(b, ".")
    IN  IF i <= 1 \/ b = <<".", ".">> THEN <<>> ELSE SubSeq(b, i, Len(b))

\* path.basename(p, ext) (posix)
BasenameExt(p, ext) ==
    LET b == Basename(p)
    IN  IF ext # <<>> /\ Len(ext) <= Len(p) /\ ext = p THEN <<>>
        ELSE IF ext # <<>> /\ b # ext /\ EndsWith(b, ext)
             THEN SubSeq(b, 1, Len(b) - Len(ext))
             ELSE b

\* Buffer.prototype.toString('utf8') over single-byte characters, which
\* stand for themselves, and one character of two bytes: a lead byte
\* followed by its continuation byte decodes to the character, a lead byte
\* without it and a continuation byte without its lead to U+FFFD each.
LeadByte == "0xC3"

ContByte == "0xA9"

TwoByteChar == "e-acute"

Replacement == "U+FFFD"

RECURSIVE Decode(_)
Decode(bytes) ==
    IF bytes = <<>> THEN <<>>
    ELSE IF Head(bytes) = LeadByte
    THEN IF Len(bytes) >= 2 /\ bytes[2] = ContByte
         THEN <<TwoByteChar>> \o Decode(SubSeq(bytes, 3, Len(bytes)))
         ELSE <<Replacement>> \o Decode(Tail(bytes))
    ELSE IF Head(bytes) = ContByte THEN <<Replacement>> \o Decode(Tail(bytes))
    ELSE <<Head(bytes)>> \o Decode(Tail(bytes))

\* String.prototype.toLowerCase, on the letters A to Z.
Uppers ==
    <<"A", "B", "C", "D", "E", "F", "G", "H", "I", "J", "K", "L", "M",
      "N", "O", "P", "Q", "R", "S", "T", "U", "V", "W", "X", "Y", "Z">>

Lowers ==
    <<"a", "b", "c", "d", "e", "f", "g", "h", "i", "j", "k", "l", "m",
      "n", "o", "p", "q", "r", "s", "t", "u", "v", "w", "x", "y", "z">>

LowerOf(c) ==
    IF \E i \in 1..Len(Uppers) : Uppers[i] = c
    THEN Lowers[CHOOSE i \in 1..Len(Uppers) : Uppers[i] = c]
    ELSE c

ToLowerCase(s) == [i \in 1..Len(s) |-> LowerOf(s[i])]

\* String.prototype.includes
Includes(s, sub) ==
    \E i \in 1..(Len(s) - Len(sub) + 1) : SubSeq(s, i, i + Len(sub) - 1) = sub

\* path.join of a directory and a name without "." or ".." segments.
PathJoin(dir, name) == dir \o <<"/">> \o name

(***************************************************************************)
(* Bounds of the model and the inputs it draws from.                       *)
(***************************************************************************)

\* The data events (stdout and stderr together) one child delivers.
MaxData == 2

\* The requests the model admits; each has its own closure state.  The
\* server is followed in full detail on one request, and on two requests
\* at a time where runs meet.
Runs == {1, 2}

Solo == {1}

NL == "\n"

\* The urls of the requests: a video, SoundCloud in lower and in mixed
\* case, and a host that only resembles it.
UrlVideo == <<"h", ":", "/", "/", "v">>

UrlSound ==
    <<"h", ":", "/", "/", "s", "o", "u", "n", "d", "c", "l", "o", "u", "d", ".",
      "c", "o", "m", "/", "x">>

UrlSoundMixed ==
    <<"H", ":", "/", "/", "S", "o", "u", "n", "d", "C", "l", "o", "u", "d", ".",
      "C", "O", "M">>

UrlNearSound ==
    <<"h", ":", "/", "/", "s", "o", "u", "n", "d", "c", "l", "o", "u", "d", ".",
      "c", "o">>

\* The offsets, in seconds, of a time range.
TimeValues == {0, 10, 20, 59, 60, 3600, 3661, 360000}

PathA == <<"/", "d", "/", "a", ".", "m", "p", "4">>
PathB == <<"/", "d", "/", "b", ".", "w", "a", "v">>
PathC == <<"/", "d", "/", "c", ".", "m", "p", "3">>
PathDot == <<"/", ".", "m", "p", "4">>
PathAccent == <<"/", "d", "/", TwoByteChar, ".", "m", "p", "4">>

\* What the child may write to its standard output in one data event: a
\* complete path line; a progress line and the head of a path line; the
\* tail of a path line and a progress line; a path with blanks around it
\* and no newline; a bare newline; a progress line and a hidden file; a
\* path up to the first byte of a character of two bytes; the second byte
\* and the rest of the path line.
OutChunks ==
    { PathA \o <<NL>>,
      <<"x", NL, "/", "d", "/", "b">>,
      <<".", "w", "a", "v", NL, "x", NL>>,
      <<" ">> \o PathC \o <<" ">>,
      <<NL>>,
      <<"x", NL>> \o PathDot \o <<NL>>,
      <<"/", "d", "/", LeadByte>>,
      <<ContByte, ".", "m", "p", "4", NL>> }

\* What the child may write to its standard error in one data event: the
\* head of a line; the tail of a line; a blank line; a path line; the
\* tool's message for age-restricted content.
ErrChunks ==
    { <<"e">>,
      <<"r", NL>>,
      <<" ", NL>>,
      PathA \o <<NL>>,
      <<"S", "ign in to confirm your age", NL>> }

\* The media files the extraction tool may leave on disk.
MediaFiles == {PathA, PathB, PathC, PathDot, PathAccent}

\* The exit status of a child killed by a signal (code is null).
NullCode == -1

ExitCodes == {0, 1, NullCode}

\* crypto.randomBytes(8).toString('hex')
CookieIds == {"id1", "id2"}

Undefined == <<>>

Some(v) == <<v>>

\* The per-request hook configurations (HookConfig of Hook.ts): two
\* webhook urls; a slack list with one url and one empty url and a webhook
\* list whose only url is empty; a tiktok token and an empty slack list.
CfgWebhook2 ==
    [tiktok |-> Undefined, slack |-> Undefined,
     webhook |-> Some(<<[url |-> "W1"], [url |-> "W2"]>>)]

CfgSlackMixed ==
    [tiktok |-> Undefined,
     slack |-> Some(<<[webhookUrl |-> "S1"], [webhookUrl |-> ""]>>),
     webhook |-> Some(<<[url |-> ""]>>)]

CfgTiktok ==
    [tiktok |-> Some([accessToken |-> "T1", title |-> <<>>]),
     slack |-> Some(<<>>), webhook |-> Undefined]

\* Lists whose entries all have an empty url.
CfgEmptyUrls ==
    [tiktok |-> Undefined,
     slack |-> Some(<<[webhookUrl |-> ""], [webhookUrl |-> ""]>>),
     webhook |-> Some(<<[url |-> ""], [url |-> ""]>>)]

HookConfigs ==
    {Undefined, Some(CfgWebhook2), Some(CfgSlackMixed), Some(CfgTiktok), Some(CfgEmptyUrls)}

\* A request body of POST /api/process with a url and nothing else.
PlainRequest ==
    [route |-> "process", url |-> UrlVideo, cookies |-> Undefined,
     hookConfig |-> Undefined, audioOnly |-> Undefined, enableRange |-> Undefined,
     startTime |-> Undefined, endTime |-> Undefined, subFolder |-> Undefined]

\* The request bodies of POST /api/process: no url; a plain request; one
\* with cookies and a hook configuration of two webhook urls; one whose
\* cookies are blank.
Requests ==
    { [PlainRequest EXCEPT !.url = <<>>],
      PlainRequest,
      [PlainRequest EXCEPT !.cookies = Some(<<"c">>),
                           !.hookConfig = Some(CfgWebhook2)],
      [PlainRequest EXCEPT !.cookies = Some(<<" ">>)] }

\* The request bodies the argument construction is exercised with.
ArgRequests ==
    { [PlainRequest EXCEPT !.url = u, !.audioOnly = a, !.enableRange = e,
                           !.startTime = t1, !.endTime = t2, !.subFolder = f] :
        u \in {UrlVideo, UrlSound, UrlSoundMixed, UrlNearSound},
        a \in {Undefined, Some(TRUE), Some(FALSE)},
        e \in {Undefined, Some(TRUE), Some(FALSE)},
        t1 \in {Undefined} \cup {Some(t) : t \in TimeValues},
        t2 \in {Undefined} \cup {Some(t) : t \in {0, 20, 3661}},
        f \in {Undefined, Some(<<" ">>), Some(<<"s">>)} }

\* The request bodies of POST /api/info.
InfoRequests ==
    { [PlainRequest EXCEPT !.route = "info", !.url = <<>>, !.cookies = Some(<<"c">>)],
      [PlainRequest EXCEPT !.route = "info"],
      [PlainRequest EXCEPT !.route = "info", !.cookies = Some(<<"c">>)] }

InfoErrChunks == {<<"e", NL>>}

\* What the child of /api/info may write to its standard output in one
\* data event: a duration line, a thumbnail line, no number.
InfoChunks ==
    { <<"1", "2", NL>>,
      <<"t", NL>>,
      <<"N", "A">> }

(***************************************************************************)
(* The extraction supervisor: the closure state of one /api/process        *)
(* request and the handlers of its child's events.                         *)
(***************************************************************************)

MAX_LOGS == 100

\* An addLog that never drops an entry.
AddLogUnbounded(queue, message) == Append(queue, message)

\* addLog: push, then drop the oldest entry once over MAX_LOGS.
AddLog(queue, message) ==
    LET q == Append(queue, message)
    IN  IF Len(q) > MAX_LOGS THEN Tail(q) ELSE q

Mp4 == <<".", "m", "p", "4">>
Mp3 == <<".", "m", "p", "3">>
Wav == <<".", "w", "a", "v">>

\* The test of the earlier processLine: .mp4 and .mp3 only.
IsResultPathNoWav(trimmed) ==
    /\ EndsWith(trimmed, Mp4) \/ EndsWith(trimmed, Mp3)
    /\ IsAbsolute(trimmed)

\* The test of processLine: an absolute path ending in .mp4, .mp3 or .wav.
IsResultPath(trimmed) ==
    /\ EndsWith(trimmed, Mp4) \/ EndsWith(trimmed, Mp3) \/ EndsWith(trimmed, Wav)
    /\ IsAbsolute(trimmed)

\* processLine that keeps the first path it met.
ProcessLineFirst(st, line) ==
    LET trimmed == Trim(line)
    IN  IF trimmed = <<>> THEN st
        ELSE [st EXCEPT !.logs = AddLog(st.logs, trimmed),
                        !.finalFilePath =
                            IF IsResultPath(trimmed) /\ @ = <<>> THEN trimmed ELSE @]

\* processLine, on the closure variables it reads and writes
\* (st.logs, st.finalFilePath).
ProcessLine(st, line) ==
    LET trimmed == Trim(line)
    IN  IF trimmed = <<>> THEN st
        ELSE [st EXCEPT !.logs = AddLog(st.logs, trimmed),
                        !.finalFilePath =
                            IF IsResultPath(trimmed) THEN trimmed ELSE @]

\* for (const line of lines) processLine(line)
RECURSIVE ProcessLines(_, _)
ProcessLines(st, lines) ==
    IF lines = <<>> THEN st
    ELSE ProcessLines(ProcessLine(st, Head(lines)), Tail(lines))

\* ytDlp.stdout.on('data'): append data.toString() to the buffer, split on newlines, keep
\* the last piece as the new buffer and process the others.
StdoutOnData(st, data) ==
    LET lines == SplitLines(st.stdoutBuffer \o Decode(data))
        n == Len(lines)
    IN  ProcessLines([st EXCEPT !.stdoutBuffer = lines[n]],
                     SubSeq(lines, 1, n - 1))

\* ytDlp.stderr.on('data'): every non-blank piece of this chunk is logged.
RECURSIVE StderrLines(_, _)
StderrLines(queue, lines) ==
    IF lines = <<>> THEN queue
    ELSE StderrLines(IF Trim(Head(lines)) # <<>>
                     THEN AddLog(queue, Trim(Head(lines)))
                     ELSE queue,
                     Tail(lines))

StderrOnData(queue, data) == StderrLines(queue, SplitLines(Decode(data)))

\* The flush of the close handler: if (stdoutBuffer.trim()) processLine(...)
FlushBuffer(st) ==
    IF Trim(st.stdoutBuffer) # <<>> THEN ProcessLine(st, st.stdoutBuffer) ELSE st

\* a || b on strings
OrElse(a, b) == IF a # <<>> THEN a ELSE b

\* The responses of the routes (reply.status(...).send(...)).
Reply(status, error, details, file) ==
    [status |-> status, error |-> error, details |-> details, file |-> file,
     duration |-> Undefined, thumbnail |-> <<>>]

DetailsNotDetected == <<"n", "o", "t", " ", "d", "e", "t", "e", "r", "m", "i", "n", "e", "d">>

ReplyUrlRequired == Reply(400, "URL is required", <<>>, <<>>)

\* The failure response with the stderr log alone as details.
ReplyFailedErrOnly(st, errLogs) ==
    Reply(500, "Download failed", JoinLines(errLogs), <<>>)

ReplyFailed(st, errLogs) ==
    Reply(500, "Download failed",
          OrElse(JoinLines(errLogs), JoinLines(st.logs)), <<>>)

ReplyNotDetected ==
    Reply(500, "Download failed - file not detected", DetailsNotDetected, <<>>)

ReplySuccess(downloadedFile) == Reply(200, "", <<>>, downloadedFile)

\* The DownloadResult with the file name, extension included, as title.
ResultOfKeepExt(path, url) ==
    LET downloadedFile == Basename(path)
    IN  [filePath |-> path,
         fileName |-> downloadedFile,
         videoTitle |-> downloadedFile,
         sourceUrl |-> url]

\* The DownloadResult built by the close handler.
ResultOf(path, url) ==
    LET downloadedFile == Basename(path)
    IN  [filePath |-> path,
         fileName |-> downloadedFile,
         videoTitle |-> BasenameExt(downloadedFile, Extname(downloadedFile)),
         sourceUrl |-> url]

\* The branches without the fs.existsSync test.
CloseBranchNoExists(code, path, disk) ==
    IF code # 0 THEN "failed"
    ELSE IF path = <<>> THEN "notDetected"
    ELSE "success"

\* The branches with the path tested before the exit status.
CloseBranchPathFirst(code, path, disk) ==
    IF path # <<>> /\ path \in disk THEN "success"
    ELSE IF code # 0 THEN "failed"
    ELSE "notDetected"

\* The branch the close handler takes, after the flush: "failed" for a
\* non-zero status, "notDetected" when no path was captured or the file is
\* not on disk, "success" otherwise.
CloseBranch(code, path, disk) ==
    IF code # 0 THEN "failed"
    ELSE IF path = <<>> \/ path \notin disk THEN "notDetected"
    ELSE "success"

\* parseInt(s): blanks are skipped, then an optional sign and the longest
\* run of decimal digits is read; NaN (Undefined here) when there is none.
\* The inputs of the model hold no "0x" prefix.
Digits == <<"0", "1", "2", "3", "4", "5", "6", "7", "8", "9">>

IsDigit(c) == \E i \in 1..10 : Digits[i] = c

DigitOf(c) == (CHOOSE i \in 1..10 : Digits[i] = c) - 1

RECURSIVE ReadDigits(_, _)
ReadDigits(s, acc) ==
    IF s # <<>> /\ IsDigit(Head(s))
    THEN ReadDigits(Tail(s), 10 * acc + DigitOf(Head(s)))
    ELSE acc

ParseInt(s) ==
    LET t == TrimStart(s)
        neg == t # <<>> /\ Head(t) = "-"
        u == IF t # <<>> /\ Head(t) \in {"-", "+"} THEN Tail(t) ELSE t
    IN  IF u = <<>> \/ ~IsDigit(Head(u)) THEN Undefined
        ELSE Some(IF neg THEN 0 - ReadDigits(u, 0) ELSE ReadDigits(u, 0))

\* The responses of POST /api/info.
ReplyInfoFailed(errText) ==
    Reply(500, "Failed to fetch video info", errText, <<>>)

ReplyInfoNoDuration == Reply(500, "Failed to parse video duration", <<>>, <<>>)

ReplyInfo(duration, thumbnail) ==
    [Reply(200, "", <<>>, <<>>) EXCEPT !.duration = duration, !.thumbnail = thumbnail]

\* The response of the close handler of /api/info, from the status and the
\* text collected from the two streams.
InfoReply(code, outText, errText) ==
    LET lines == SplitLines(Trim(outText))
        duration == ParseInt(lines[1])
        thumbnail == IF Len(lines) >= 2 THEN lines[2] ELSE <<>>
    IN  IF code # 0 THEN ReplyInfoFailed(errText)
        ELSE IF duration = Undefined THEN ReplyInfoNoDuration
        ELSE ReplyInfo(duration, thumbnail)

\* path.join(BASE_DOWNLOAD_DIR, `cookies_${id}.txt`)
CookiePath(id) == <<"cookies_", id, ".txt">>

\* cookies && cookies.trim()
HasCookies(cookies) == cookies # Undefined /\ Trim(cookies[1]) # <<>>

\* A close handler that leaves the cookie file.
CleanupCookieNever(disk, file) == disk

\* A close handler that removes every cookie file it finds.
CleanupCookieAll(disk, file) ==
    IF file # <<>> THEN disk \ {CookiePath(id) : id \in CookieIds} ELSE disk

\* if (cookieFile && fs.existsSync(cookieFile)) fs.unlinkSync(cookieFile)
CleanupCookie(disk, file) ==
    IF file # <<>> /\ file \in disk THEN disk \ {file} ELSE disk

(***************************************************************************)
(* The arguments of the extraction tool.  An argument is a text; an option *)
(* name or a fixed value is a text of one piece.                           *)
(***************************************************************************)

BASE_DOWNLOAD_DIR == <<"/", "d">>

VIDEO_DIR == PathJoin(BASE_DOWNLOAD_DIR, <<"videos">>)

AUDIO_DIR == PathJoin(BASE_DOWNLOAD_DIR, <<"audio">>)

SoundCloudCom ==
    <<"s", "o", "u", "n", "d", "c", "l", "o", "u", "d", ".", "c", "o", "m">>

\* url.toLowerCase().includes('soundcloud.com')
IsSoundCloud(url) == Includes(ToLowerCase(url), SoundCloudCom)

\* audioOnly || isSoundCloud
EffectiveAudioOnly(rq) == rq.audioOnly = Some(TRUE) \/ IsSoundCloud(rq.url)

\* subFolder && subFolder.trim()
HasSubFolder(rq) == rq.subFolder # Undefined /\ Trim(rq.subFolder[1]) # <<>>

TargetDir(rq) ==
    LET parent == IF EffectiveAudioOnly(rq) THEN AUDIO_DIR ELSE VIDEO_DIR
    IN  IF HasSubFolder(rq) THEN PathJoin(parent, Trim(rq.subFolder[1])) ELSE parent

\* path.join(targetDir, '%(title)s.%(ext)s')
OutputTemplate(rq) == PathJoin(TargetDir(rq), <<"%(title)s.%(ext)s">>)

\* Number.prototype.toString of a natural number.
RECURSIVE NatToString(_)
NatToString(n) ==
    IF n < 10 THEN <<Digits[n + 1]>>
    ELSE NatToString(n \div 10) \o <<Digits[(n % 10) + 1]>>

\* String.prototype.padStart(2, '0')
PadStart2(s) == IF Len(s) < 2 THEN <<"0">> \o s ELSE s

FormatTimeHHMMSS(seconds) ==
    LET h == seconds \div 3600
        m == (seconds % 3600) \div 60
        sec == seconds % 60
    IN  PadStart2(NatToString(h)) \o <<":">> \o PadStart2(NatToString(m))
        \o <<":">> \o PadStart2(NatToString(sec))

\* A range test on the truthiness of the offsets, which takes 0 for absent.
RangeRequestedTruthy(rq) ==
    /\ rq.enableRange = Some(TRUE)
    /\ rq.startTime # Undefined /\ rq.startTime # Some(0)
    /\ rq.endTime # Undefined /\ rq.endTime # Some(0)

\* enableRange && startTime !== undefined && endTime !== undefined
RangeRequested(rq) ==
    /\ rq.enableRange = Some(TRUE)
    /\ rq.startTime # Undefined
    /\ rq.endTime # Undefined

RangeStr(rq) ==
    <<"*">> \o FormatTimeHHMMSS(rq.startTime[1]) \o <<"-">>
    \o FormatTimeHHMMSS(rq.endTime[1])

VideoFormat ==
    <<"bestvideo[height<=1080][vcodec^=avc1]+bestaudio[ext=m4a]/bestvideo[height<=1080]+bestaudio/best[height<=1080]/best">>

\* Format arguments that extract mp3 from every source.
FormatArgsMp3Always(rq) ==
    IF EffectiveAudioOnly(rq)
    THEN <<<<"-x">>, <<"--audio-format">>, <<"m", "p", "3">>,
           <<"--audio-quality">>, <<"0">>>>
    ELSE <<<<"-f">>, VideoFormat, <<"--merge-output-format">>, <<"m", "p", "4">>>>

FormatArgs(rq) ==
    IF EffectiveAudioOnly(rq)
    THEN IF IsSoundCloud(rq.url)
         THEN <<<<"-x">>, <<"--audio-format">>, <<"w", "a", "v">>>>
         ELSE <<<<"-x">>, <<"--audio-format">>, <<"m", "p", "3">>,
                <<"--audio-quality">>, <<"0">>>>
    ELSE <<<<"-f">>, VideoFormat, <<"--merge-output-format">>, <<"m", "p", "4">>>>

\* The arguments /api/process spawns the tool with; file is the cookie
\* file written for the request, <<>> when there is none.
BuildArgs(rq, file) ==
    <<<<"--no-playlist">>, <<"--print">>, <<"after_move:filepath">>,
      <<"--no-simulate">>, <<"--js-runtimes">>, <<"bun">>,
      <<"-o">>, OutputTemplate(rq)>>
    \o (IF file # <<>> THEN <<<<"--cookies">>, file>> ELSE <<>>)
    \o FormatArgs(rq)
    \o (IF RangeRequested(rq) THEN <<<<"--download-sections">>, RangeStr(rq)>> ELSE <<>>)
    \o <<rq.url>>

\* The arguments /api/info spawns the tool with.
InfoArgs(rq, file) ==
    <<<<"--no-playlist">>, <<"--print">>, <<"duration">>, <<"--print">>,
      <<"thumbnail">>, <<"--js-runtimes">>, <<"bun">>>>
    \o (IF file # <<>> THEN <<<<"--cookies">>, file>> ELSE <<>>)
    \o <<rq.url>>

(***************************************************************************)
(* The hooks and the HookManager.                                          *)
(***************************************************************************)

\* The environments the process may be started in (process.env).
EnvAll ==
    [SLACK_WEBHOOK_URL |-> "S0", ENABLE_SLACK |-> "true",
     GENERIC_WEBHOOK_URL |-> "W0",
     ENABLE_TIKTOK |-> "true", TIKTOK_ACCESS_TOKEN |-> "T0"]

EnvNone ==
    [SLACK_WEBHOOK_URL |-> "", ENABLE_SLACK |-> "",
     GENERIC_WEBHOOK_URL |-> "",
     ENABLE_TIKTOK |-> "", TIKTOK_ACCESS_TOKEN |-> ""]

EnvPartial ==
    [SLACK_WEBHOOK_URL |-> "S0", ENABLE_SLACK |-> "false",
     GENERIC_WEBHOOK_URL |-> "W0",
     ENABLE_TIKTOK |-> "false", TIKTOK_ACCESS_TOKEN |-> "T0"]

Envs == {EnvAll, EnvNone, EnvPartial}

\* HookManager.registerHooks
RegisteredHooks == <<"TiktokHook", "SlackHook", "WebhookHook">>

\* The fields of the three hook objects after their constructors
\* (TiktokHook reads its token in the constructor).
ConstructedFields(e) ==
    [webhookUrl |-> "", targetUrl |-> "",
     accessToken |-> e.TIKTOK_ACCESS_TOKEN, enabled |-> FALSE]

\* SlackHook.init
SlackInit(e) ==
    IF e.SLACK_WEBHOOK_URL = "" THEN ""
    ELSE IF e.ENABLE_SLACK # "true" THEN "" ELSE e.SLACK_WEBHOOK_URL

\* WebhookHook.init
WebhookInit(e) == e.GENERIC_WEBHOOK_URL

\* TiktokHook.init
TiktokInit(e, accessToken) == e.ENABLE_TIKTOK = "true" /\ accessToken # ""

\* HookManager.init: every hook's init, none of which throws.
HookManagerInit(e, f) ==
    [f EXCEPT !.webhookUrl = SlackInit(e),
              !.targetUrl = WebhookInit(e),
              !.enabled = TiktokInit(e, f.accessToken)]

\* One HTTP request of a hook (axios.post, axios.put).
Req(method, url, auth, body) ==
    [method |-> method, url |-> url, auth |-> auth, body |-> body,
     st |-> "inflight"]

\* One invocation of a hook's execute: its arguments, the promise it
\* returned and the requests it has issued.
Exec(hook, result, config, st, reqs) ==
    [hook |-> hook, result |-> result, config |-> config, st |-> st,
     reqs |-> reqs]

\* The urls with a non-empty url, in order (the forEach of execute).
RECURSIVE NonEmpty(_)
NonEmpty(urls) ==
    IF urls = <<>> THEN <<>>
    ELSE IF Head(urls) # "" THEN <<Head(urls)>> \o NonEmpty(Tail(urls))
    ELSE NonEmpty(Tail(urls))

\* config?.slack and config?.webhook, as optional lists of urls.
SlackConfigs(config) ==
    IF config = Undefined \/ config[1].slack = Undefined THEN Undefined
    ELSE Some([i \in 1..Len(config[1].slack[1]) |-> config[1].slack[1][i].webhookUrl])

WebhookConfigs(config) ==
    IF config = Undefined \/ config[1].webhook = Undefined THEN Undefined
    ELSE Some([i \in 1..Len(config[1].webhook[1]) |-> config[1].webhook[1][i].url])

\* A urlsToNotify that adds the default to the configured urls.
UrlsToNotifyPlusDefault(configs, default) ==
    (IF configs # Undefined THEN NonEmpty(configs[1]) ELSE <<>>)
    \o (IF default # "" THEN <<default>> ELSE <<>>)

\* A urlsToNotify that falls back to the default when no configured url
\* is left after the empty ones are dropped.
UrlsToNotifyFallback(configs, default) ==
    IF configs # Undefined /\ NonEmpty(configs[1]) # <<>> THEN NonEmpty(configs[1])
    ELSE IF default # "" THEN <<default>>
    ELSE <<>>

\* urlsToNotify of SlackHook.execute and of WebhookHook.execute: the
\* configured urls when the list is not empty, else the default if set.
UrlsToNotify(configs, default) ==
    IF configs # Undefined /\ Len(configs[1]) > 0 THEN NonEmpty(configs[1])
    ELSE IF default # "" THEN <<default>>
    ELSE <<>>

SlackPayload(result) ==
    [title |-> result.videoTitle, source |-> result.sourceUrl,
     file |-> result.fileName, status |-> "Downloaded"]

\* urlsToNotify.map(async url => axios.post(url, body)), then allSettled.
PostAll(hook, result, config, urls, body) ==
    Exec(hook, result, config,
         IF urls = <<>> THEN "fulfilled" ELSE "pending",
         [i \in 1..Len(urls) |-> Req("POST", urls[i], "", body)])

\* SlackHook.execute, to its first await.
SlackExecute(result, config, f) ==
    PostAll("SlackHook", result, config,
            UrlsToNotify(SlackConfigs(config), f.webhookUrl),
            SlackPayload(result))

\* WebhookHook.execute, to its first await.
WebhookExecute(result, config, f) ==
    PostAll("WebhookHook", result, config,
            UrlsToNotify(WebhookConfigs(config), f.targetUrl),
            result)

\* tiktokConfig?.accessToken and tiktokConfig?.title ("" when absent)
TiktokConfigToken(config) ==
    IF config = Undefined \/ config[1].tiktok = Undefined THEN ""
    ELSE config[1].tiktok[1].accessToken

TiktokConfigTitle(config) ==
    IF config = Undefined \/ config[1].tiktok = Undefined THEN <<>>
    ELSE config[1].tiktok[1].title

TiktokInitUrl == "https://open.tiktokapis.com/v2/post/publish/video/init/"

\* An execute that knows the default token only.
TiktokExecuteDefaultToken(result, config, f, disk) ==
    IF ~f.enabled
    THEN Exec("TiktokHook", result, config, "fulfilled", <<>>)
    ELSE IF result.filePath \notin disk
    THEN Exec("TiktokHook", result, config, "rejected", <<>>)
    ELSE Exec("TiktokHook", result, config, "pending",
              <<Req("POST", TiktokInitUrl, f.accessToken,
                    [title |-> OrElse(result.videoTitle, Basename(result.filePath))])>>)

\* TiktokHook.execute, to its first await: a no-op unless enabled or given
\* a token; statSync throws when the file is missing, which rejects.
TiktokExecute(result, config, f, disk) ==
    LET accessToken ==
            IF TiktokConfigToken(config) # "" THEN TiktokConfigToken(config)
            ELSE f.accessToken
        title ==
            OrElse(TiktokConfigTitle(config),
                   OrElse(result.videoTitle, Basename(result.filePath)))
    IN  IF ~f.enabled /\ TiktokConfigToken(config) = ""
        THEN Exec("TiktokHook", result, config, "fulfilled", <<>>)
        ELSE IF result.filePath \notin disk
        THEN Exec("TiktokHook", result, config, "rejected", <<>>)
        ELSE Exec("TiktokHook", result, config, "pending",
                  <<Req("POST", TiktokInitUrl, accessToken, [title |-> title])>>)

\* hook.execute(result, config), to its first await.  The two stub hooks
\* stand for any other Hook: one throws at once, one settles later.
Execute(hook, result, config, f, disk) ==
    CASE hook = "TiktokHook" -> TiktokExecute(result, config, f, disk)
      [] hook = "SlackHook" -> SlackExecute(result, config, f)
      [] hook = "WebhookHook" -> WebhookExecute(result, config, f)
      [] hook = "StubThrow" -> Exec(hook, result, config, "rejected", <<>>)
      [] hook = "StubAsync" -> Exec(hook, result, config, "pending", <<>>)

\* A notify whose loop ends at the first hook that throws.
NotifyExecsStopAtThrow(hs, result, f, disk) ==
    LET all == [i \in 1..Len(hs) |-> Execute(hs[i], result, Undefined, f, disk)]
        thrown == {i \in 1..Len(hs) : all[i].st = "rejected"}
    IN  IF thrown = {} THEN all
        ELSE SubSeq(all, 1, CHOOSE i \in thrown : \A k \in thrown : i <= k)

\* The body of HookManager.notify(result): execute is called on every hook
\* in order, with the result alone (notify takes no config and passes
\* none).
NotifyExecs(hs, result, f, disk) ==
    [i \in 1..Len(hs) |-> Execute(hs[i], result, Undefined, f, disk)]

Settled(e) == e.st # "pending"

\* Promise.all over the executions: rejected as soon as one is.
AllFailFast(es) ==
    IF \E i \in 1..Len(es) : es[i].st = "rejected" THEN "rejected"
    ELSE IF \A i \in 1..Len(es) : es[i].st = "fulfilled" THEN "resolved"
    ELSE "pending"

\* A join that completes with the first execution that settles.
AllSettledFirst(es) ==
    IF \E i \in 1..Len(es) : Settled(es[i]) THEN "resolved" ELSE "pending"

\* Promise.allSettled over the executions: resolved once every one has
\* settled, whatever the outcomes.
AllSettled(es) ==
    IF \A i \in 1..Len(es) : Settled(es[i]) THEN "resolved" ELSE "pending"

\* A settle that posts again to a url whose request failed.
SettleReqRetry(e, j, outcome) ==
    LET reqs == [e.reqs EXCEPT ![j].st = IF outcome = "failed" THEN "failed" ELSE "ok"]
    IN  IF outcome = "failed" /\ Len(reqs) < 4
        THEN [e EXCEPT !.reqs = Append(reqs, [reqs[j] EXCEPT !.st = "inflight"])]
        ELSE [e EXCEPT !.reqs = reqs,
                       !.st = IF \A k \in 1..Len(reqs) : reqs[k].st # "inflight"
                              THEN "fulfilled" ELSE "pending"]

\* A settle after which the chat-notify and generic-webhook hooks throw
\* the error of a failed post again.
SettleReqRethrow(e, j, outcome) ==
    LET reqs == [e.reqs EXCEPT ![j].st = IF outcome = "failed" THEN "failed" ELSE "ok"]
        done == \A k \in 1..Len(reqs) : reqs[k].st # "inflight"
    IN  IF e.hook = "TiktokHook"
        THEN IF outcome # "ok" THEN [e EXCEPT !.reqs = reqs, !.st = "rejected"]
             ELSE IF j = 1
             THEN [e EXCEPT !.reqs = Append(reqs, Req("PUT", "upload_url", "", <<>>))]
             ELSE [e EXCEPT !.reqs = reqs, !.st = "fulfilled"]
        ELSE [e EXCEPT !.reqs = reqs,
                       !.st = IF outcome = "failed" THEN "rejected"
                              ELSE IF done THEN "fulfilled" ELSE "pending"]

\* A settle after which the social-publish hook logs its error and returns.
SettleReqSwallow(e, j, outcome) ==
    LET reqs == [e.reqs EXCEPT ![j].st = IF outcome = "failed" THEN "failed" ELSE "ok"]
        done == \A k \in 1..Len(reqs) : reqs[k].st # "inflight"
    IN  IF e.hook = "TiktokHook"
        THEN IF outcome # "ok" THEN [e EXCEPT !.reqs = reqs, !.st = "fulfilled"]
             ELSE IF j = 1
             THEN [e EXCEPT !.reqs = Append(reqs, Req("PUT", "upload_url", "", <<>>))]
             ELSE [e EXCEPT !.reqs = reqs, !.st = "fulfilled"]
        ELSE [e EXCEPT !.reqs = reqs,
                       !.st = IF done THEN "fulfilled" ELSE "pending"]

\* One request of an execution settles.  outcome is "ok", "failed" or, for
\* the init request of TiktokHook, "okNoUrl" (a response with no
\* upload_url).
SettleReq(e, j, outcome) ==
    LET reqs == [e.reqs EXCEPT ![j].st = IF outcome = "failed" THEN "failed" ELSE "ok"]
        done == \A k \in 1..Len(reqs) : reqs[k].st # "inflight"
    IN  IF e.hook = "TiktokHook"
        THEN IF outcome # "ok" THEN [e EXCEPT !.reqs = reqs, !.st = "rejected"]
             ELSE IF j = 1
             THEN [e EXCEPT !.reqs = Append(reqs, Req("PUT", "upload_url", "", <<>>))]
             ELSE [e EXCEPT !.reqs = reqs, !.st = "fulfilled"]
        ELSE [e EXCEPT !.reqs = reqs,
                       !.st = IF done THEN "fulfilled" ELSE "pending"]

(***************************************************************************)
(* The state.                                                              *)
(***************************************************************************)

VARIABLES
    env,            \* process.env
    srv,            \* "boot", then "listening" once start has run
    hooks,          \* HookManager.hooks
    hookFields,     \* the fields of the hook objects
    fs,             \* the files on disk
    pc,             \* per request: idle, running, exited, closed, rejected
    request,        \* per request: its body
    child,          \* per request: what its child has written, its status
    cookieFile,     \* per request: the closure variables of the handler
    finalFilePath,
    logs,
    errorLogs,
    stdoutBuffer,
    stdout,         \* per request of /api/info: the text collected
    stderr,
    replies,        \* per request: the responses sent
    notified,       \* per request: the arguments of its calls of notify
    notifyState,    \* per invocation: the promise notify returned
    execs           \* per invocation: the executions of the hooks

vars ==
    <<env, srv, hooks, hookFields, fs, pc, request, child, cookieFile,
      finalFilePath, logs, errorLogs, stdoutBuffer, stdout, stderr, replies,
      notified, notifyState, execs>>

procVars == <<env, srv, hooks, hookFields>>

closureVars ==
    <<cookieFile, finalFilePath, logs, errorLogs, stdoutBuffer, stdout, stderr>>

fanVars == <<notified, notifyState, execs>>

NoChild ==
    [args |-> <<>>, raw |-> <<>>, out |-> <<>>, err |-> <<>>, n |-> 0, code |-> 0]

NoRequest == [PlainRequest EXCEPT !.route = "none", !.url = <<>>]

InitRuns ==
    /\ pc = [r \in Runs |-> "idle"]
    /\ request = [r \in Runs |-> NoRequest]
    /\ child = [r \in Runs |-> NoChild]
    /\ cookieFile = [r \in Runs |-> <<>>]
    /\ finalFilePath = [r \in Runs |-> <<>>]
    /\ logs = [r \in Runs |-> <<>>]
    /\ errorLogs = [r \in Runs |-> <<>>]
    /\ stdoutBuffer = [r \in Runs |-> <<>>]
    /\ stdout = [r \in Runs |-> <<>>]
    /\ stderr = [r \in Runs |-> <<>>]
    /\ replies = [r \in Runs |-> <<>>]
    /\ notified = [r \in Runs |-> <<>>]
    /\ notifyState = [r \in Runs |-> "none"]
    /\ execs = [r \in Runs |-> <<>>]

\* The process after its module-level code: new HookManager() has
\* registered the hooks, start has not run yet.
Init ==
    /\ env \in Envs
    /\ srv = "boot"
    /\ hooks = RegisteredHooks
    /\ hookFields = ConstructedFields(env)
    /\ fs = {BASE_DOWNLOAD_DIR, VIDEO_DIR, AUDIO_DIR}
    /\ InitRuns

\* The closure variables of request r as the record the handlers work on.
Closure(r) ==
    [stdoutBuffer |-> stdoutBuffer[r], logs |-> logs[r],
     finalFilePath |-> finalFilePath[r]]

\* Closure variables declared at module level: one stdoutBuffer for all
\* requests.
SetClosureShared(r, st) ==
    /\ stdoutBuffer' = [q \in Runs |-> st.stdoutBuffer]
    /\ logs' = [logs EXCEPT ![r] = st.logs]
    /\ finalFilePath' = [finalFilePath EXCEPT ![r] = st.finalFilePath]

SetClosure(r, st) ==
    /\ stdoutBuffer' = [stdoutBuffer EXCEPT ![r] = st.stdoutBuffer]
    /\ logs' = [logs EXCEPT ![r] = st.logs]
    /\ finalFilePath' = [finalFilePath EXCEPT ![r] = st.finalFilePath]

(***************************************************************************)
(* The actions of the server.                                              *)
(***************************************************************************)

\* A start that listens without initialising the hooks.
StartListenOnly ==
    /\ srv = "boot"
    /\ srv' = "listening"
    /\ UNCHANGED <<env, hooks, hookFields, fs, pc, request, child, closureVars,
                   replies, fanVars>>

\* start: await hookManager.init(), then server.listen.
Start ==
    /\ srv = "boot"
    /\ hookFields' = HookManagerInit(env, hookFields)
    /\ srv' = "listening"
    /\ UNCHANGED <<env, hooks, fs, pc, request, child, closureVars, replies, fanVars>>

\* POST /api/process with body rq, up to the spawn of the child: the
\* sub-folder is created, the cookie file written, the child spawned with
\* its arguments.
Process(r, rq, id) ==
    /\ srv = "listening"
    /\ pc[r] = "idle"
    /\ request' = [request EXCEPT ![r] = rq]
    /\ IF rq.url = <<>>
       THEN /\ replies' = [replies EXCEPT ![r] = Append(@, ReplyUrlRequired)]
            /\ pc' = [pc EXCEPT ![r] = "rejected"]
            /\ UNCHANGED <<fs, cookieFile, child>>
       ELSE LET file == IF HasCookies(rq.cookies) THEN CookiePath(id) ELSE <<>>
                made == IF HasSubFolder(rq) THEN {TargetDir(rq)} ELSE {}
                written == IF file # <<>> THEN {file} ELSE {}
            IN  /\ cookieFile' = [cookieFile EXCEPT ![r] = file]
                /\ fs' = fs \cup made \cup written
                /\ child' = [child EXCEPT ![r].args = BuildArgs(rq, file)]
                /\ pc' = [pc EXCEPT ![r] = "running"]
                /\ UNCHANGED replies
    /\ UNCHANGED <<procVars, finalFilePath, logs, errorLogs, stdoutBuffer,
                   stdout, stderr, fanVars>>

\* The child writes data to its standard output: the stdout data handler.
StdoutData(r, data) ==
    /\ pc[r] = "running"
    /\ request[r].route = "process"
    /\ child[r].n < MaxData
    /\ child' = [child EXCEPT ![r].raw = @ \o data, ![r].out = @ \o Decode(data),
                              ![r].n = @ + 1]
    /\ SetClosure(r, StdoutOnData(Closure(r), data))
    /\ UNCHANGED <<procVars, fs, pc, request, cookieFile, errorLogs, stdout, stderr,
                   replies, fanVars>>

\* A stderr data handler that hands its lines to processLine.
StderrDataCapturing(r, data) ==
    /\ pc[r] = "running"
    /\ request[r].route = "process"
    /\ child[r].n < MaxData
    /\ child' = [child EXCEPT ![r].err = @ \o Decode(data), ![r].n = @ + 1]
    /\ errorLogs' = [errorLogs EXCEPT ![r] = StderrOnData(@, data)]
    /\ finalFilePath' = [finalFilePath EXCEPT ![r] =
           ProcessLines([Closure(r) EXCEPT !.logs = <<>>],
                        SplitLines(Decode(data))).finalFilePath]
    /\ UNCHANGED <<procVars, fs, pc, request, cookieFile, logs,
                   stdoutBuffer, stdout, stderr, replies, fanVars>>

\* The child writes data to its standard error: the stderr data handler.
StderrData(r, data) ==
    /\ pc[r] = "running"
    /\ request[r].route = "process"
    /\ child[r].n < MaxData
    /\ child' = [child EXCEPT ![r].err = @ \o Decode(data), ![r].n = @ + 1]
    /\ errorLogs' = [errorLogs EXCEPT ![r] = StderrOnData(@, data)]
    /\ UNCHANGED <<procVars, fs, pc, request, cookieFile, finalFilePath, logs,
                   stdoutBuffer, stdout, stderr, replies, fanVars>>

\* The child ends with a status, having left at most one media file on
\* disk (--no-playlist).
ChildExit(r, code, produced) ==
    /\ pc[r] = "running"
    /\ child' = [child EXCEPT ![r].code = code]
    /\ fs' = fs \cup produced
    /\ pc' = [pc EXCEPT ![r] = "exited"]
    /\ UNCHANGED <<procVars, request, closureVars, replies, fanVars>>

\* A close handler that awaits notify before it answers a success.
CloseRepliesAwaited(branch, st, errLogs) ==
    CASE branch = "failed" -> <<ReplyFailed(st, errLogs)>>
      [] branch = "notDetected" -> <<ReplyNotDetected>>
      [] branch = "success" -> <<>>

\* A close handler whose failure branch does not return.
CloseRepliesFallThrough(branch, st, errLogs) ==
    CASE branch = "failed" -> <<ReplyFailed(st, errLogs), ReplyNotDetected>>
      [] branch = "notDetected" -> <<ReplyNotDetected>>
      [] branch = "success" -> <<ReplySuccess(Basename(st.finalFilePath))>>

\* A close handler that reports in its answer whether the social-publish
\* hook is enabled.
CloseRepliesWithHooks(branch, st, errLogs) ==
    CASE branch = "failed" -> <<ReplyFailed(st, errLogs)>>
      [] branch = "notDetected" -> <<ReplyNotDetected>>
      [] branch = "success" ->
            <<[ReplySuccess(Basename(st.finalFilePath)) EXCEPT
                  !.details = IF hookFields.enabled THEN <<"t">> ELSE <<>>]>>

\* A close handler that returns without an answer when no file was
\* detected.
CloseRepliesSilent(branch, st, errLogs) ==
    CASE branch = "failed" -> <<ReplyFailed(st, errLogs)>>
      [] branch = "notDetected" -> <<>>
      [] branch = "success" -> <<ReplySuccess(Basename(st.finalFilePath))>>

\* The responses the close handler sends, by the branch it takes.
CloseReplies(branch, st, errLogs) ==
    CASE branch = "failed" -> <<ReplyFailed(st, errLogs)>>
      [] branch = "notDetected" -> <<ReplyNotDetected>>
      [] branch = "success" -> <<ReplySuccess(Basename(st.finalFilePath))>>

\* A close handler that calls notify as soon as a path was captured.
CloseNotifiesOnPath(branch, st, url, config) ==
    IF st.finalFilePath # <<>>
    THEN <<[result |-> ResultOf(st.finalFilePath, url), config |-> config]>>
    ELSE <<>>

\* The calls of hookManager.notify the close handler makes, by its branch.
CloseNotifies(branch, st, url, config) ==
    IF branch = "success"
    THEN <<[result |-> ResultOf(st.finalFilePath, url), config |-> config]>>
    ELSE <<>>

\* ytDlp.on('close') of /api/process: the cookie file is removed, the
\* partial line flushed, and the branch taken on the disk and the path as
\* they are then.
Close(r) ==
    /\ pc[r] = "exited"
    /\ request[r].route = "process"
    /\ \E disk \in {CleanupCookie(fs, cookieFile[r])}, st \in {FlushBuffer(Closure(r))} :
       \E branch \in {CloseBranch(child[r].code, st.finalFilePath, disk)} :
           /\ fs' = disk
           /\ SetClosure(r, st)
           /\ replies' = [replies EXCEPT ![r] = @ \o CloseReplies(branch, st, errorLogs[r])]
           /\ notified' = [notified EXCEPT ![r] =
                  @ \o CloseNotifies(branch, st, request[r].url, request[r].hookConfig)]
           /\ IF branch = "success"
              THEN /\ execs' = [execs EXCEPT ![r] =
                          NotifyExecs(hooks, ResultOf(st.finalFilePath, request[r].url),
                                      hookFields, disk)]
                   /\ notifyState' = [notifyState EXCEPT ![r] = "pending"]
              ELSE UNCHANGED <<execs, notifyState>>
    /\ pc' = [pc EXCEPT ![r] = "closed"]
    /\ UNCHANGED <<procVars, request, child, cookieFile, errorLogs, stdout, stderr>>

\* POST /api/info with body rq, up to the spawn of the child.
Info(r, rq, id) ==
    /\ srv = "listening"
    /\ pc[r] = "idle"
    /\ request' = [request EXCEPT ![r] = rq]
    /\ IF rq.url = <<>>
       THEN /\ replies' = [replies EXCEPT ![r] = Append(@, ReplyUrlRequired)]
            /\ pc' = [pc EXCEPT ![r] = "rejected"]
            /\ UNCHANGED <<fs, cookieFile, child>>
       ELSE LET file == IF HasCookies(rq.cookies) THEN CookiePath(id) ELSE <<>>
            IN  /\ cookieFile' = [cookieFile EXCEPT ![r] = file]
                /\ fs' = fs \cup (IF file # <<>> THEN {file} ELSE {})
                /\ child' = [child EXCEPT ![r].args = InfoArgs(rq, file)]
                /\ pc' = [pc EXCEPT ![r] = "running"]
                /\ UNCHANGED replies
    /\ UNCHANGED <<procVars, finalFilePath, logs, errorLogs, stdoutBuffer,
                   stdout, stderr, fanVars>>

\* The stdout data handler of /api/info: stdout += data.toString()
InfoStdoutData(r, data) ==
    /\ pc[r] = "running"
    /\ request[r].route = "info"
    /\ child[r].n < MaxData
    /\ child' = [child EXCEPT ![r].raw = @ \o data, ![r].out = @ \o Decode(data),
                              ![r].n = @ + 1]
    /\ stdout' = [stdout EXCEPT ![r] = @ \o Decode(data)]
    /\ UNCHANGED <<procVars, fs, pc, request, cookieFile, finalFilePath, logs,
                   errorLogs, stdoutBuffer, stderr, replies, fanVars>>

\* The stderr data handler of /api/info: stderr += data.toString()
InfoStderrData(r, data) ==
    /\ pc[r] = "running"
    /\ request[r].route = "info"
    /\ child[r].n < MaxData
    /\ child' = [child EXCEPT ![r].err = @ \o Decode(data), ![r].n = @ + 1]
    /\ stderr' = [stderr EXCEPT ![r] = @ \o Decode(data)]
    /\ UNCHANGED <<procVars, fs, pc, request, cookieFile, finalFilePath, logs,
                   errorLogs, stdoutBuffer, stdout, replies, fanVars>>

\* ytDlp.on('close') of /api/info.
InfoClose(r) ==
    /\ pc[r] = "exited"
    /\ request[r].route = "info"
    /\ fs' = CleanupCookie(fs, cookieFile[r])
    /\ replies' = [replies EXCEPT ![r] =
           Append(@, InfoReply(child[r].code, stdout[r], stderr[r]))]
    /\ pc' = [pc EXCEPT ![r] = "closed"]
    /\ UNCHANGED <<procVars, request, child, closureVars, fanVars>>

\* One request of a hook's execution settles.
HttpSettle(n, i, j, outcome) ==
    /\ i \in 1..Len(execs[n])
    /\ execs[n][i].st = "pending"
    /\ j \in 1..Len(execs[n][i].reqs)
    /\ execs[n][i].reqs[j].st = "inflight"
    /\ outcome = "okNoUrl" => (execs[n][i].hook = "TiktokHook" /\ j = 1)
    /\ execs' = [execs EXCEPT ![n][i] = SettleReq(@, j, outcome)]
    /\ UNCHANGED <<procVars, fs, pc, request, child, closureVars, replies,
                   notified, notifyState>>

\* The promise of notify settles: the allSettled join over the executions.
NotifyJoin(n) ==
    /\ notifyState[n] = "pending"
    /\ AllSettled(execs[n]) # "pending"
    /\ notifyState' = [notifyState EXCEPT ![n] = AllSettled(execs[n])]
    /\ UNCHANGED <<procVars, fs, pc, request, child, closureVars, replies,
                   notified, execs>>

Outcomes == {"ok", "failed", "okNoUrl"}

Next ==
    \/ Start
    \/ \E r \in Solo, rq \in Requests, id \in CookieIds : Process(r, rq, id)
    \/ \E r \in Solo, data \in OutChunks : StdoutData(r, data)
    \/ \E r \in Solo, data \in ErrChunks : StderrData(r, data)
    \/ \E r \in Solo, code \in ExitCodes,
          produced \in {{}} \cup {{f} : f \in MediaFiles} : ChildExit(r, code, produced)
    \/ \E r \in Solo : Close(r)
    \/ \E r \in Solo, rq \in InfoRequests, id \in CookieIds : Info(r, rq, id)
    \/ \E r \in Solo, data \in InfoChunks : InfoStdoutData(r, data)
    \/ \E r \in Solo, data \in InfoErrChunks : InfoStderrData(r, data)
    \/ \E r \in Solo : InfoClose(r)
    \/ \E n \in Solo, outcome \in Outcomes :
          \E i \in 1..Len(execs[n]) : \E j \in 1..Len(execs[n][i].reqs) :
          HttpSettle(n, i, j, outcome)
    \/ \E n \in Solo : NotifyJoin(n)

Spec == Init /\ [][Next]_vars

\* The server up to the spawn, over the request bodies that exercise the
\* argument construction.
NextArgs ==
    \/ Start
    \/ \E r \in Solo, rq \in ArgRequests, id \in CookieIds : Process(r, rq, id)

SpecArgs == Init /\ [][NextArgs]_vars

\* A run whose child has been writing for a while: the lines "1", "2", ...
\* "p" have arrived on each of its two streams, and the handlers have
\* worked through them.
NumberedLine(k) == <<ToString(k)>>

Numbered(p) == [i \in 1..(2 * p) |-> IF i % 2 = 1 THEN ToString((i + 1) \div 2) ELSE NL]

PriorLines == {MAX_LOGS - 2, MAX_LOGS - 1, MAX_LOGS}

InitLogs ==
    /\ env = EnvNone
    /\ srv = "listening"
    /\ hooks = RegisteredHooks
    /\ hookFields = HookManagerInit(env, ConstructedFields(env))
    /\ fs = {BASE_DOWNLOAD_DIR, VIDEO_DIR, AUDIO_DIR}
    /\ \E p \in PriorLines :
          LET text == Numbered(p)
              lines == [k \in 1..p |-> NumberedLine(k)]
              on(r) == r \in Solo
          IN  /\ pc = [r \in Runs |-> IF on(r) THEN "running" ELSE "idle"]
              /\ request = [r \in Runs |-> IF on(r) THEN PlainRequest ELSE NoRequest]
              /\ child = [r \in Runs |->
                     IF on(r)
                     THEN [NoChild EXCEPT !.args = BuildArgs(PlainRequest, <<>>),
                                          !.raw = text, !.out = text, !.err = text]
                     ELSE NoChild]
              /\ logs = [r \in Runs |-> IF on(r) THEN lines ELSE <<>>]
              /\ errorLogs = [r \in Runs |-> IF on(r) THEN lines ELSE <<>>]
    /\ cookieFile = [r \in Runs |-> <<>>]
    /\ finalFilePath = [r \in Runs |-> <<>>]
    /\ stdoutBuffer = [r \in Runs |-> <<>>]
    /\ stdout = [r \in Runs |-> <<>>]
    /\ stderr = [r \in Runs |-> <<>>]
    /\ replies = [r \in Runs |-> <<>>]
    /\ notified = [r \in Runs |-> <<>>]
    /\ notifyState = [r \in Runs |-> "none"]
    /\ execs = [r \in Runs |-> <<>>]

NextLogs ==
    \/ \E r \in Solo, data \in OutChunks : StdoutData(r, data)
    \/ \E r \in Solo, data \in ErrChunks : StderrData(r, data)
    \/ \E r \in Solo, code \in ExitCodes : ChildExit(r, code, {})
    \/ \E r \in Solo : Close(r)

SpecLogs == InitLogs /\ [][NextLogs]_vars

\* Two requests at a time, of either route, with and without cookies: the
\* events of their two children interleave freely.
PairRequests ==
    { PlainRequest, [PlainRequest EXCEPT !.cookies = Some(<<"c">>)] }

PairInfoRequests == { [PlainRequest EXCEPT !.route = "info", !.cookies = Some(<<"c">>)] }

PairOutChunks == { <<"x", NL, "/", "d", "/", "b">>, <<".", "w", "a", "v", NL, "x", NL>> }

PairErrChunks == { <<"e">> }

NextPair ==
    \/ Start
    \/ \E r \in Runs, rq \in PairRequests, id \in CookieIds : Process(r, rq, id)
    \/ \E r \in Runs, data \in PairOutChunks : StdoutData(r, data)
    \/ \E r \in Runs, data \in PairErrChunks : StderrData(r, data)
    \/ \E r \in Runs, code \in {0, 1}, produced \in {{}, {PathB}} :
          ChildExit(r, code, produced)
    \/ \E r \in Runs : Close(r)
    \/ \E r \in Runs, rq \in PairInfoRequests, id \in CookieIds : Info(r, rq, id)
    \/ \E r \in Runs : InfoClose(r)

\* One request whose child ends and whose close event is delivered: the
\* child is assumed to end, and the event loop runs the close handler once
\* the event is there.
ChildCloses ==
    \E r \in Solo, code \in ExitCodes, produced \in {{}, {PathB}} :
        ChildExit(r, code, produced)

CloseHandled == \E r \in Solo : Close(r)

LiveRequests == { [PlainRequest EXCEPT !.url = <<>>], PlainRequest }

NextLive ==
    \/ Start
    \/ \E r \in Solo, rq \in LiveRequests, id \in CookieIds : Process(r, rq, id)
    \/ \E r \in Solo, data \in PairOutChunks : StdoutData(r, data)
    \/ \E r \in Solo, data \in PairErrChunks : StderrData(r, data)
    \/ ChildCloses
    \/ CloseHandled

SpecLive ==
    Init /\ [][NextLive]_vars /\ WF_vars(ChildCloses) /\ WF_vars(CloseHandled)

InitPair == Init /\ env = EnvNone

SpecPair == InitPair /\ [][NextPair]_vars

(***************************************************************************)
(* The hooks and the HookManager on their own: after init, notify and the  *)
(* execute of each hook are called with drawn results and configurations,  *)
(* and the HookManager may hold stub hooks in place of the registered      *)
(* ones.                                                                   *)
(***************************************************************************)

HookLists ==
    { RegisteredHooks,
      <<"StubAsync", "StubThrow", "StubAsync">>,
      <<"StubAsync", "StubAsync", "StubAsync">> }

Results == {ResultOf(PathA, UrlVideo), ResultOf(PathDot, UrlVideo)}

InitUnit ==
    /\ env \in Envs
    /\ srv = "boot"
    /\ hooks \in HookLists
    /\ hookFields = ConstructedFields(env)
    /\ fs \in {{}, {PathA}}
    /\ InitRuns

\* await hookManager.init()
InitHooks ==
    /\ srv = "boot"
    /\ hookFields' = HookManagerInit(env, hookFields)
    /\ srv' = "hooksReady"
    /\ UNCHANGED <<env, hooks, fs, pc, request, child, closureVars, replies, fanVars>>

\* hookManager.notify(result, config)
UnitNotify(n, result, config) ==
    /\ srv = "hooksReady"
    /\ notifyState[n] = "none"
    /\ execs[n] = <<>>
    /\ notified' = [notified EXCEPT ![n] = Append(@, [result |-> result, config |-> config])]
    /\ execs' = [execs EXCEPT ![n] = NotifyExecs(hooks, result, hookFields, fs)]
    /\ notifyState' = [notifyState EXCEPT ![n] = "pending"]
    /\ UNCHANGED <<procVars, fs, pc, request, child, closureVars, replies>>

\* An execute that keeps the urls and the token of its configuration as
\* the hook's defaults.
UnitExecuteSticky(n, hook, result, config) ==
    /\ srv = "hooksReady"
    /\ hooks = RegisteredHooks
    /\ notifyState[n] = "none"
    /\ execs[n] = <<>>
    /\ execs' = [execs EXCEPT ![n] = <<Execute(hook, result, config, hookFields, fs)>>]
    /\ hookFields' =
          [hookFields EXCEPT
             !.webhookUrl = IF UrlsToNotify(SlackConfigs(config), "") # <<>>
                            THEN UrlsToNotify(SlackConfigs(config), "")[1] ELSE @,
             !.targetUrl = IF UrlsToNotify(WebhookConfigs(config), "") # <<>>
                           THEN UrlsToNotify(WebhookConfigs(config), "")[1] ELSE @,
             !.accessToken = IF TiktokConfigToken(config) # ""
                             THEN TiktokConfigToken(config) ELSE @]
    /\ UNCHANGED <<env, srv, hooks, fs, pc, request, child, closureVars, replies,
                   notified, notifyState>>

\* hook.execute(result, config) on one registered hook
UnitExecute(n, hook, result, config) ==
    /\ srv = "hooksReady"
    /\ hooks = RegisteredHooks
    /\ notifyState[n] = "none"
    /\ execs[n] = <<>>
    /\ execs' = [execs EXCEPT ![n] = <<Execute(hook, result, config, hookFields, fs)>>]
    /\ UNCHANGED <<procVars, fs, pc, request, child, closureVars, replies,
                   notified, notifyState>>

\* The promise of a stub hook settles.
StubSettle(n, i, st) ==
    /\ i \in 1..Len(execs[n])
    /\ execs[n][i].hook = "StubAsync"
    /\ execs[n][i].st = "pending"
    /\ execs' = [execs EXCEPT ![n][i].st = st]
    /\ UNCHANGED <<procVars, fs, pc, request, child, closureVars, replies,
                   notified, notifyState>>

NextUnit ==
    \/ InitHooks
    \/ \E n \in Solo, result \in Results, config \in HookConfigs :
          UnitNotify(n, result, config)
    \/ \E n \in Solo, i \in 1..Len(RegisteredHooks), result \in Results,
          config \in HookConfigs :
          UnitExecute(n, RegisteredHooks[i], result, config)
    \/ \E n \in Solo, st \in {"fulfilled", "rejected"} :
          \E i \in 1..Len(execs[n]) : StubSettle(n, i, st)
    \/ \E n \in Solo, outcome \in Outcomes :
          \E i \in 1..Len(execs[n]) : \E j \in 1..Len(execs[n][i].reqs) :
          HttpSettle(n, i, j, outcome)
    \/ \E n \in Solo : NotifyJoin(n)

SpecUnit == InitUnit /\ [][NextUnit]_vars

(***************************************************************************)
(* The outcome of a run, stated on the whole text its child has written    *)
(* rather than on the handlers' buffers.                                   *)
(***************************************************************************)

MinOf(S) == CHOOSE x \in S : \A y \in S : x <= y

MaxOf(S) == CHOOSE x \in S : \A y \in S : x >= y

\* The lines of a text: the maximal stretches <<i, j>> without a newline
\* (j = i - 1 for an empty line).
LineSpans(s) ==
    LET starts == {i \in 1..(Len(s) + 1) : i = 1 \/ s[i - 1] = NL}
        end(i) == LET nls == {k \in i..Len(s) : s[k] = NL}
                  IN  IF nls = {} THEN Len(s) ELSE MinOf(nls) - 1
    IN  {<<i, end(i)>> : i \in starts}

\* A line without the blanks around it.
LineText(s, sp) ==
    LET inked == {k \in sp[1]..sp[2] : s[k] \notin {" ", "\t", "\r"}}
    IN  IF inked = {} THEN <<>> ELSE SubSeq(s, MinOf(inked), MaxOf(inked))

\* An absolute path ending in a supported media extension.
Qualifies(t) ==
    /\ Len(t) >= 4
    /\ t[1] = "/"
    /\ SubSeq(t, Len(t) - 3, Len(t)) \in {Mp4, Mp3, Wav}

PathSpans(s) == {sp \in LineSpans(s) : Qualifies(LineText(s, sp))}

\* The last qualifying path line of a text, <<>> when it has none.
LastPath(s) ==
    LET spans == PathSpans(s)
    IN  IF spans = {} THEN <<>>
        ELSE LineText(s, CHOOSE sp \in spans : \A other \in spans : other[1] <= sp[1])

\* The last segment of a path that does not end in a separator.
LastSegment(p) ==
    LET slashes == {k \in 1..Len(p) : p[k] = "/"}
    IN  IF slashes = {} THEN p ELSE SubSeq(p, MaxOf(slashes) + 1, Len(p))

\* A file name without its extension: what precedes its last "." unless
\* that "." opens the name (a hidden file has no extension).
Stem(name) ==
    LET dots == {k \in 2..Len(name) : name[k] = "."}
    IN  IF dots = {} THEN name ELSE SubSeq(name, 1, MaxOf(dots) - 1)

HasInk(s) == \E k \in 1..Len(s) : ~IsWhite(s[k])

\* Request r of /api/process is at its close event, resp. was answered by
\* this step.
Closing(r) == pc[r] = "exited" /\ pc'[r] = "closed" /\ request[r].route = "process"

ClosedProcess(r) == pc[r] = "closed" /\ request[r].route = "process"

\* C1: when the child closes with status 0 and the last qualifying path
\* line of its stdout names a file on disk, the one response is the success
\* response with the last segment of that path as file name, and notify is
\* handed that path, that file name and the file name without its
\* extension as title.
C1_SuccessOutcome ==
    [][\A r \in Runs :
        (/\ Closing(r)
         /\ child[r].code = 0
         /\ LastPath(child[r].out) # <<>>
         /\ LastPath(child[r].out) \in fs)
        => LET path == LastPath(child[r].out)
           IN  /\ replies'[r] = <<ReplySuccess(LastSegment(path))>>
               /\ Len(notified'[r]) = 1
               /\ notified'[r][1].result.filePath = path
               /\ notified'[r][1].result.fileName = LastSegment(path)
               /\ notified'[r][1].result.videoTitle = Stem(LastSegment(path))
               /\ notified'[r][1].result.sourceUrl = request[r].url]_vars

\* A download succeeded from a path line that arrived cut in two chunks ...
C1_Witness ==
    \E r \in Runs :
        /\ ClosedProcess(r)
        /\ child[r].code = 0
        /\ LastPath(child[r].out) = PathB
        /\ replies[r] = <<ReplySuccess(<<"b", ".", "w", "a", "v">>)>>
        /\ notified[r][1].result.videoTitle = <<"b">>

\* C2: when the child closes with status 0 and its stdout holds no
\* qualifying path line, or the last one names no file on disk, the one
\* response is the "file not detected" failure, notify is not called and no
\* hook is executed.
C2_NotDetected ==
    [][\A r \in Runs :
        (/\ Closing(r)
         /\ child[r].code = 0
         /\ LastPath(child[r].out) = <<>> \/ LastPath(child[r].out) \notin fs)
        => /\ replies'[r] = <<ReplyNotDetected>>
           /\ replies'[r][1].status = 500
           /\ replies'[r][1].error # ReplySuccess(<<>>).error
           /\ replies'[r][1].error # ReplyFailed(Closure(r), <<>>).error
           /\ notified'[r] = <<>>
           /\ execs'[r] = <<>>
           /\ notifyState'[r] = "none"]_vars

\* ... both cases of C2 are reached: no path line at all, and a path line
\* whose file is missing.
C2_Witness ==
    \E r \in Runs :
        /\ ClosedProcess(r)
        /\ child[r].code = 0
        /\ LastPath(child[r].out) = PathA
        /\ PathA \notin fs
        /\ PathB \in fs
        /\ replies[r] = <<ReplyNotDetected>>

\* C3 as claimed: when the child closes with a non-zero status the response
\* is the failure response, and its details are not empty whenever the
\* child wrote anything at all to stdout or stderr.
C3_AnyOutput ==
    [][\A r \in Runs :
        (Closing(r) /\ child[r].code # 0)
        => /\ Len(replies'[r]) = 1
           /\ replies'[r][1].status = 500
           /\ (child[r].out # <<>> \/ child[r].err # <<>>)
              => replies'[r][1].details # <<>>]_vars

\* C3, amended: when the child closes with a non-zero status (null
\* included) the one response is the "Download failed" failure, notify is
\* not called, and the details are not empty whenever the child wrote at
\* least one non-blank character to stdout or stderr, in any chunking and
\* with or without a final newline.
C3_FailureDetails ==
    [][\A r \in Runs :
        (Closing(r) /\ child[r].code # 0)
        => /\ Len(replies'[r]) = 1
           /\ replies'[r][1].status = 500
           /\ replies'[r][1].error = "Download failed"
           /\ notified'[r] = <<>>
           /\ (HasInk(child[r].out) \/ HasInk(child[r].err))
              => replies'[r][1].details # <<>>]_vars

\* A failed run whose only output was an unterminated stdout line, which
\* the details carry.
C3_Witness ==
    \E r \in Runs :
        /\ ClosedProcess(r)
        /\ child[r].code = NullCode
        /\ child[r].err = <<>>
        /\ child[r].out = <<" ">> \o PathC \o <<" ">>
        /\ replies[r][1].details = PathC

\* C4: when the stdout of a closed run holds two or more qualifying path
\* lines, the path of the outcome is the last of them in stream order,
\* whatever lines lie between them.
C4_LastMatchWins ==
    \A r \in Runs :
        (ClosedProcess(r) /\ Cardinality(PathSpans(child[r].out)) >= 2)
        => /\ finalFilePath[r] = LastPath(child[r].out)
           /\ \A k \in 1..Len(notified[r]) :
                 notified[r][k].result.filePath = LastPath(child[r].out)
           /\ \A k \in 1..Len(replies[r]) :
                 replies[r][k].status = 200
                 => replies[r][k].file = LastSegment(LastPath(child[r].out))

\* Two different path lines with a progress line between them; the
\* download succeeded with the second.
C4_Witness ==
    \E r \in Runs :
        /\ ClosedProcess(r)
        /\ child[r].out = PathA \o <<NL, "x", NL>> \o PathDot \o <<NL>>
        /\ PathDot \in fs
        /\ finalFilePath[r] = PathDot
        /\ replies[r] = <<ReplySuccess(Mp4)>>

\* Request r is answered by this step.
Answered(r) == replies'[r] # replies[r]

\* C5: a cookie file is written exactly when the request carries non-blank
\* cookies; it is on disk from the spawn until the close event; and at the
\* step that sends the response it is no longer on disk, on every path of
\* /api/process and of /api/info.
C5_CookieFile ==
    /\ [](\A r \in Runs :
            (pc[r] \in {"running", "exited"} /\ cookieFile[r] # <<>>)
            => cookieFile[r] \in fs)
    /\ [][\A r \in Runs :
            /\ (pc[r] = "idle" /\ pc'[r] = "running")
               => /\ cookieFile'[r] # <<>> <=> HasCookies(request'[r].cookies)
                  /\ cookieFile'[r] # <<>> => cookieFile'[r] \in fs'
            /\ (Answered(r) /\ cookieFile[r] # <<>>)
               => cookieFile[r] \notin fs']_vars

\* A download with cookies was answered with success and its cookie file
\* is gone.
C5_Witness ==
    \E r \in Runs :
        /\ ClosedProcess(r)
        /\ cookieFile[r] # <<>>
        /\ cookieFile[r] \notin fs
        /\ replies[r][1].status = 200

(***************************************************************************)
(* The notification fan-out.                                               *)
(***************************************************************************)

\* The executions of invocation n and the urls one of them has posted to.
ExecsOf(n) == {execs[n][i] : i \in 1..Len(execs[n])}

Posted(e) == [k \in 1..Len(e.reqs) |-> e.reqs[k].url]

IsUrlHook(e) == e.hook \in {"SlackHook", "WebhookHook"}

\* C6: the promise of notify never rejects, whatever the hooks do: it
\* stays pending while a hook is pending, it can resolve as soon as every
\* hook has settled, and once resolved every hook is seen fulfilled or
\* rejected.
C6_NotifyNeverRejects ==
    \A n \in Runs :
        /\ notifyState[n] # "rejected"
        /\ notifyState[n] = "resolved"
           => \A e \in ExecsOf(n) : e.st \in {"fulfilled", "rejected"}
        /\ (notifyState[n] = "pending" /\ \A e \in ExecsOf(n) : e.st # "pending")
           => ENABLED NotifyJoin(n)

\* Three hooks: one threw, one rejected later, one fulfilled; notify has
\* resolved.
C6_Witness ==
    \E n \in Runs :
        /\ hooks = <<"StubAsync", "StubThrow", "StubAsync">>
        /\ notifyState[n] = "resolved"
        /\ execs[n][1].st = "rejected"
        /\ execs[n][2].st = "rejected"
        /\ execs[n][3].st = "fulfilled"

\* C7: a call of notify executes every hook of the manager exactly once,
\* in order, with the result it was given, whether or not another hook
\* threw, rejected or is still pending; with the hooks registerHooks
\* creates these are the social-publish, chat-notify and generic-webhook
\* hooks, once each.
C7_EveryHookOnce ==
    \A n \in Runs :
        notifyState[n] # "none"
        => /\ [i \in 1..Len(execs[n]) |-> execs[n][i].hook] = hooks
           /\ \A e \in ExecsOf(n) : e.result = notified[n][1].result
           /\ hooks = RegisteredHooks
              => \A h \in {"TiktokHook", "SlackHook", "WebhookHook"} :
                    Cardinality({i \in 1..Len(execs[n]) : execs[n][i].hook = h}) = 1

\* The social-publish hook threw on a missing file; the two other hooks
\* were executed all the same and one is still pending.
C7_Witness ==
    \E n \in Runs :
        /\ hooks = RegisteredHooks
        /\ notifyState[n] = "pending"
        /\ Len(execs[n]) = 3
        /\ execs[n][1].st = "rejected"
        /\ execs[n][1].reqs = <<>>
        /\ execs[n][2].st = "pending"
        /\ execs[n][3].hook = "WebhookHook"

\* The generic-webhook overrides of a configuration, when it holds nothing
\* else.
OnlyWebhookOverride(config) ==
    /\ config # Undefined
    /\ config[1].tiktok = Undefined
    /\ config[1].slack = Undefined
    /\ config[1].webhook # Undefined

\* C8: after a successful download whose request carried only a
\* generic-webhook override of two urls, exactly those two urls are posted
\* the outcome, once each, and GENERIC_WEBHOOK_URL is posted nothing.
C8_OverrideEndToEnd ==
    \A r \in Runs :
        (/\ ClosedProcess(r)
         /\ replies[r][1].status = 200
         /\ OnlyWebhookOverride(request[r].hookConfig)
         /\ Len(request[r].hookConfig[1].webhook[1]) = 2)
        => \E e \in ExecsOf(r) :
              /\ e.hook = "WebhookHook"
              /\ Posted(e) = [k \in 1..2 |-> request[r].hookConfig[1].webhook[1][k].url]
              /\ \A k \in 1..Len(e.reqs) : e.reqs[k].body = notified[r][1].result
              /\ \A k \in 1..Len(e.reqs) : e.reqs[k].url # env.GENERIC_WEBHOOK_URL

\* The urls a configuration lists for a hook, and the default of the hook.
Listed(hook, config) ==
    IF config = Undefined THEN <<>>
    ELSE IF hook = "SlackHook"
         THEN IF config[1].slack = Undefined THEN <<>>
              ELSE [k \in 1..Len(config[1].slack[1]) |-> config[1].slack[1][k].webhookUrl]
         ELSE IF config[1].webhook = Undefined THEN <<>>
              ELSE [k \in 1..Len(config[1].webhook[1]) |-> config[1].webhook[1][k].url]

IsUrl(u) == u # ""

DefaultUrl(hook) ==
    IF hook = "SlackHook"
    THEN IF env.ENABLE_SLACK = "true" THEN env.SLACK_WEBHOOK_URL ELSE ""
    ELSE env.GENERIC_WEBHOOK_URL

DefaultTargets(hook) == IF DefaultUrl(hook) # "" THEN <<DefaultUrl(hook)>> ELSE <<>>

\* The targets as claimed: the per-request urls when the configuration
\* supplies any url, else the default.
TargetsClaimed(hook, config) ==
    IF SelectSeq(Listed(hook, config), IsUrl) # <<>>
    THEN SelectSeq(Listed(hook, config), IsUrl)
    ELSE DefaultTargets(hook)

\* The targets, amended: the default is used only when the configuration
\* lists no entry at all for the hook.
TargetsAmended(hook, config) ==
    IF Listed(hook, config) # <<>>
    THEN SelectSeq(Listed(hook, config), IsUrl)
    ELSE DefaultTargets(hook)

\* C9 as claimed: one execute of the chat-notify or generic-webhook hook
\* posts to the per-request urls when the configuration supplies any, else
\* to the default url alone when the hook was enabled at init, else to
\* nothing, and then it completes at once.
C9_TargetsAsClaimed ==
    \A n \in Runs : \A e \in ExecsOf(n) :
        IsUrlHook(e)
        => /\ Posted(e) = TargetsClaimed(e.hook, e.config)
           /\ TargetsClaimed(e.hook, e.config) = <<>> => (e.reqs = <<>> /\ e.st = "fulfilled")

\* C9, amended: the per-request list takes precedence whenever it has an
\* entry, even when no entry has a url (then nothing is posted and the
\* default is not used); with no entry the default url alone is posted to
\* when the hook was enabled at init; with no target execute posts nothing
\* and completes.
C9_Targets ==
    \A n \in Runs : \A e \in ExecsOf(n) :
        IsUrlHook(e)
        => /\ Posted(e) = TargetsAmended(e.hook, e.config)
           /\ \A k \in 1..Len(e.reqs) : e.reqs[k].method = "POST"
           /\ TargetsAmended(e.hook, e.config) = <<>> => (e.reqs = <<>> /\ e.st = "fulfilled")

\* The chat-notify hook, enabled with a default, executed with a list of
\* one url and one empty url: the one url is posted to, the default is not.
C9_Witness ==
    \E n \in Runs :
        /\ env = EnvAll
        /\ Len(execs[n]) = 1
        /\ execs[n][1].hook = "SlackHook"
        /\ execs[n][1].config = Some(CfgSlackMixed)
        /\ Posted(execs[n][1]) = <<"S1">>

\* C10: in one execute of the chat-notify or generic-webhook hook every
\* target has exactly one request, at all times; a step settles one
\* request in flight and leaves every other request as it was, and no
\* request is ever added, so a failure neither cancels another attempt nor
\* is retried; the execute completes when the last request has settled.
C10_OneAttemptPerTarget ==
    /\ [](\A n \in Runs : \A e \in ExecsOf(n) :
            IsUrlHook(e)
            => /\ Len(e.reqs) = Len(TargetsAmended(e.hook, e.config))
               /\ e.st = "pending" <=> \E k \in 1..Len(e.reqs) : e.reqs[k].st = "inflight"
               /\ e.st # "pending" => e.st = "fulfilled")
    /\ [][\A n \in Runs : \A i \in 1..Len(execs[n]) :
            (IsUrlHook(execs[n][i]) /\ i <= Len(execs'[n]))
            => LET old == execs[n][i].reqs
                   new == execs'[n][i].reqs
               IN  /\ Len(new) = Len(old)
                   /\ \A k \in 1..Len(old) :
                         /\ new[k].url = old[k].url
                         /\ old[k].st # "inflight" => new[k].st = old[k].st
                   /\ Cardinality({k \in 1..Len(old) : new[k].st # old[k].st}) <= 1]_vars

\* Two targets, the request to the first failed, the request to the second
\* succeeded, and the execute has completed.
C10_Witness ==
    \E n \in Runs :
        /\ Len(execs[n]) = 1
        /\ execs[n][1].hook = "WebhookHook"
        /\ Posted(execs[n][1]) = <<"W1", "W2">>
        /\ execs[n][1].reqs[1].st = "failed"
        /\ execs[n][1].reqs[2].st = "ok"
        /\ execs[n][1].st = "fulfilled"

(***************************************************************************)
(* The response and the fan-out.                                           *)
(***************************************************************************)

\* Request r of /api/process passed the url validation.
Accepted(r) == request[r].route = "process" /\ request[r].url # <<>>

\* C11: the step that calls notify sends the success response itself, with
\* notify not yet complete and without any hook having to settle; notify
\* completes only in a later step, when the response has been sent long
\* since; so while a hook never settles the response is there all the same.
C11_ReplyBeforeFanOut ==
    /\ [][\A r \in Runs :
            /\ notified'[r] # notified[r]
               => /\ Len(replies[r]) = 0
                  /\ Len(replies'[r]) = 1
                  /\ replies'[r][1].status = 200
                  /\ notifyState'[r] = "pending"
            /\ (notifyState[r] # "resolved" /\ notifyState'[r] = "resolved")
               => (Len(replies[r]) = 1 /\ replies[r][1].status = 200)]_vars
    /\ [](\A r \in Runs : notifyState[r] # "none" => Len(replies[r]) = 1)

\* The success response is out while a hook is still pending and notify
\* has not completed.
C11_Witness ==
    \E r \in Runs :
        /\ ClosedProcess(r)
        /\ replies[r] # <<>>
        /\ replies[r][1].status = 200
        /\ notifyState[r] = "pending"
        /\ \E e \in ExecsOf(r) : e.st = "pending"

\* C16: a request of /api/process that passed the url validation has no
\* response until the close event of its child and exactly one from then
\* on; a response is sent by the close handler alone, which runs once,
\* after the child has exited.
C16_OneResponseAtClose ==
    /\ [](\A r \in Runs :
            Accepted(r) => Len(replies[r]) = IF pc[r] = "closed" THEN 1 ELSE 0)
    /\ [][\A r \in Runs :
            (request'[r].route = "process" /\ request'[r].url # <<>>
             /\ replies'[r] # replies[r])
            => /\ Closing(r)
               /\ child[r].code \in ExitCodes
               /\ Len(replies'[r]) = Len(replies[r]) + 1]_vars

\* A failed run: its child wrote to both streams, exited with status 1 and
\* the one response is the failure.
C16_Witness ==
    \E r \in Runs :
        /\ ClosedProcess(r)
        /\ child[r].code = 1
        /\ child[r].out # <<>>
        /\ child[r].err # <<>>
        /\ Len(replies[r]) = 1
        /\ replies[r][1].status = 500

\* C17: notify is called once, by the close handler, for a request whose
\* response is the success, and never for a request whose child failed or
\* whose file was not located, nor before the close event.
C17_NotifyOncePerSuccess ==
    /\ [](\A r \in Runs :
            request[r].route = "process"
            => Len(notified[r]) =
                  IF pc[r] = "closed" /\ replies[r][1].status = 200 THEN 1 ELSE 0)
    /\ [][\A r \in Runs : notified'[r] # notified[r] => Closing(r)]_vars

\* A run that captured a path whose file is on disk and failed with status
\* 1: notify was not called.
C17_Witness ==
    \E r \in Runs :
        /\ ClosedProcess(r)
        /\ child[r].code = 1
        /\ finalFilePath[r] = PathA
        /\ PathA \in fs
        /\ notified[r] = <<>>
        /\ notifyState[r] = "none"

\* The success response as a function of what the child wrote.
SuccessResponse(out) ==
    [status |-> 200, error |-> "", details |-> <<>>,
     file |-> LastSegment(LastPath(out)), duration |-> <<>>, thumbnail |-> <<>>]

\* C18: in every state after a successful download, whatever the
\* environment of the hooks, the hook configuration of the request and the
\* state of each hook (pending, fulfilled, rejected), the response is the
\* same function of the child's output and of nothing else.
C18_ResponseHidesHooks ==
    \A r \in Runs :
        (ClosedProcess(r) /\ notifyState[r] # "none")
        => replies[r] = <<SuccessResponse(child[r].out)>>

\* The three hooks ran to different ends: one rejected, the others
\* fulfilled after a failed and a successful request.
C18_Witness ==
    \E r \in Runs :
        /\ ClosedProcess(r)
        /\ notifyState[r] = "resolved"
        /\ replies[r] = <<SuccessResponse(child[r].out)>>
        /\ \E e \in ExecsOf(r) : e.st = "rejected"
        /\ \E e \in ExecsOf(r) : e.st = "fulfilled" /\ \E k \in 1..Len(e.reqs) : e.reqs[k].st = "failed"

(***************************************************************************)
(* The kind of a failure.                                                  *)
(***************************************************************************)

\* The two diagnostics of the tool, in lower case: rotated cookies and
\* age-restricted content.
DiagCookies == <<"c", "ookies are no longer valid">>

DiagAge == <<"s", "ign in to confirm your age">>

\* C12: when the child closes with a non-zero status, the error of the
\* response is a specific kind when the stdout and stderr text, lower-cased,
\* contains one of the two diagnostics (one kind for each), and the generic
\* "Download failed" only when it contains neither.
C12_ErrorKind ==
    [][\A r \in Runs :
        (Closing(r) /\ child[r].code # 0)
        => LET combined == ToLowerCase(child[r].out \o child[r].err)
               diagnosed == Includes(combined, DiagCookies) \/ Includes(combined, DiagAge)
           IN  /\ Len(replies'[r]) = 1
               /\ replies'[r][1].status = 500
               /\ replies'[r][1].error = "Download failed" <=> ~diagnosed]_vars

(***************************************************************************)
(* The arguments the tool is spawned with.                                 *)
(***************************************************************************)

\* Request r of /api/process has spawned its child.
Spawned(r) == request[r].route = "process" /\ pc[r] # "idle" /\ pc[r] # "rejected"

\* The argument that follows option opt, and whether opt is given.
HasOption(a, opt) == \E i \in 1..Len(a) : a[i] = <<opt>>

OptionValue(a, opt) == a[(CHOOSE i \in 1..Len(a) : a[i] = <<opt>>) + 1]

\* Arguments a hold the arguments part next to each other, in order.
HasRun(a, part) ==
    \E i \in 0..(Len(a) - Len(part)) : \A k \in 1..Len(part) : a[i + k] = part[k]

StartsWith(t, prefix) == Len(t) >= Len(prefix) /\ SubSeq(t, 1, Len(prefix)) = prefix

\* Letters c and d are equal up to case.
SameLetter(c, d) ==
    c = d \/ \E j \in 1..26 : {c, d} = {Uppers[j], Lowers[j]}

\* The url names soundcloud.com, in any case.
NamesSoundCloud(url) ==
    \E i \in 0..(Len(url) - 14) :
        \A k \in 1..14 : SameLetter(url[i + k], SoundCloudCom[k])

\* C13: a request whose url names soundcloud.com in any case is spawned
\* with the wav extraction arguments and the audio directory as
\* destination, whatever its audioOnly; any other url with audioOnly true
\* is spawned with the mp3 arguments at quality 0 and the audio directory;
\* any other url without audioOnly true with the video format selector,
\* the mp4 merge format and the video directory.
C13_FormatByPlatform ==
    \A r \in Runs :
        Spawned(r)
        => LET rq == request[r]
               a == child[r].args
               wav == <<<<"-x">>, <<"--audio-format">>, <<"w", "a", "v">>>>
               mp3 == <<<<"-x">>, <<"--audio-format">>, <<"m", "p", "3">>,
                        <<"--audio-quality">>, <<"0">>>>
               video == <<<<"-f">>, VideoFormat, <<"--merge-output-format">>,
                          <<"m", "p", "4">>>>
               toAudio == StartsWith(OptionValue(a, "-o"), AUDIO_DIR \o <<"/">>)
               toVideo == StartsWith(OptionValue(a, "-o"), VIDEO_DIR \o <<"/">>)
           IN  IF NamesSoundCloud(rq.url)
               THEN HasRun(a, wav) /\ toAudio /\ ~HasRun(a, mp3) /\ ~HasOption(a, "-f")
               ELSE IF rq.audioOnly = Some(TRUE)
               THEN HasRun(a, mp3) /\ toAudio /\ ~HasRun(a, wav) /\ ~HasOption(a, "-f")
               ELSE HasRun(a, video) /\ toVideo /\ ~HasOption(a, "-x")

\* A SoundCloud url in mixed case with audioOnly false, spawned for wav.
C13_Witness ==
    \E r \in Runs :
        /\ Spawned(r)
        /\ request[r].url = UrlSoundMixed
        /\ request[r].audioOnly = Some(FALSE)
        /\ OptionValue(child[r].args, "--audio-format") = <<"w", "a", "v">>

\* The number a text of decimal digits denotes.
RECURSIVE NatOf(_)
NatOf(t) ==
    IF t = <<>> THEN 0
    ELSE 10 * NatOf(SubSeq(t, 1, Len(t) - 1)) + DigitOf(t[Len(t)])

\* Text b is hours:minutes:seconds for offset n: digits only, each field
\* at least two digits wide, minutes and seconds exactly two and below 60.
IsBoundaryOf(b, n) ==
    LET colons == {i \in 1..Len(b) : b[i] = ":"}
    IN  /\ Cardinality(colons) = 2
        /\ \A i \in 1..Len(b) : i \notin colons => IsDigit(b[i])
        /\ LET c1 == MinOf(colons)
               c2 == MaxOf(colons)
               hh == SubSeq(b, 1, c1 - 1)
               mm == SubSeq(b, c1 + 1, c2 - 1)
               ss == SubSeq(b, c2 + 1, Len(b))
           IN  /\ Len(hh) >= 2 /\ Len(mm) = 2 /\ Len(ss) = 2
               /\ Len(hh) > 2 => hh[1] # "0"
               /\ NatOf(mm) < 60 /\ NatOf(ss) < 60
               /\ NatOf(hh) * 3600 + NatOf(mm) * 60 + NatOf(ss) = n

\* C14: the child is spawned with --download-sections exactly when the
\* request enables the range and supplies both start and end (0 included);
\* the directive is then "*", the start as zero-padded HH:MM:SS, "-", the
\* end as zero-padded HH:MM:SS, with minutes and seconds below 60 and the
\* fields adding up to the offset; start 10 and end 20 give
\* *00:00:10-00:00:20.
C14_RangeDirective ==
    \A r \in Runs :
        Spawned(r)
        => LET rq == request[r]
               a == child[r].args
               wanted == /\ rq.enableRange = Some(TRUE)
                         /\ rq.startTime # Undefined
                         /\ rq.endTime # Undefined
           IN  /\ HasOption(a, "--download-sections") <=> wanted
               /\ wanted
                  => LET d == OptionValue(a, "--download-sections")
                         dash == IndexOf(d, "-")
                     IN  /\ d[1] = "*"
                         /\ dash > 2
                         /\ IsBoundaryOf(SubSeq(d, 2, dash - 1), rq.startTime[1])
                         /\ IsBoundaryOf(SubSeq(d, dash + 1, Len(d)), rq.endTime[1])
               /\ (wanted /\ rq.startTime = Some(10) /\ rq.endTime = Some(20))
                  => OptionValue(a, "--download-sections") =
                        <<"*", "0", "0", ":", "0", "0", ":", "1", "0", "-",
                          "0", "0", ":", "0", "0", ":", "2", "0">>

\* A range from 0 to 3661 seconds, spawned with *00:00:00-01:01:01.
C14_Witness ==
    \E r \in Runs :
        /\ Spawned(r)
        /\ request[r].enableRange = Some(TRUE)
        /\ request[r].startTime = Some(0)
        /\ request[r].endTime = Some(3661)
        /\ OptionValue(child[r].args, "--download-sections") =
              <<"*", "0", "0", ":", "0", "0", ":", "0", "0", "-",
                "0", "1", ":", "0", "1", ":", "0", "1">>

\* The output template of a request without a range: the destination and
\* the title and extension pattern.
PlainTemplate(rq) ==
    (IF NamesSoundCloud(rq.url) \/ rq.audioOnly = Some(TRUE) THEN AUDIO_DIR ELSE VIDEO_DIR)
    \o (IF rq.subFolder # Undefined /\ HasInk(rq.subFolder[1])
        THEN <<"/">> \o LineText(rq.subFolder[1], <<1, Len(rq.subFolder[1])>>)
        ELSE <<>>)
    \o <<"/", "%(title)s.%(ext)s">>

\* C15: the output template of a request with a time range carries a
\* suffix made from the start and the end (10 and 20 give 10s-20s), so it
\* differs from the template of the same request without a range; without
\* a range the template carries no suffix.
C15_RangeSuffix ==
    \A r \in Runs :
        Spawned(r)
        => LET rq == request[r]
               template == OptionValue(child[r].args, "-o")
               ranged == /\ rq.enableRange = Some(TRUE)
                         /\ rq.startTime # Undefined
                         /\ rq.endTime # Undefined
           IN  /\ ~ranged => template = PlainTemplate(rq)
               /\ ranged => template # PlainTemplate(rq)
               /\ (ranged /\ rq.startTime = Some(10) /\ rq.endTime = Some(20))
                  => Includes(template, <<"1", "0", "s", "-", "2", "0", "s">>)

(***************************************************************************)
(* The streams, line by line.                                              *)
(***************************************************************************)

\* The positions of the newlines of a text, and its n-th line (the text
\* between the newlines n - 1 and n, or up to the end).
Newlines(s) == {i \in 1..Len(s) : s[i] = NL}

NthLine(s, n) ==
    LET before == {i \in Newlines(s) : Cardinality({j \in Newlines(s) : j <= i}) = n - 1}
        at == {i \in Newlines(s) : Cardinality({j \in Newlines(s) : j <= i}) = n}
        from == IF before = {} THEN 1 ELSE MaxOf(before) + 1
        to == IF at = {} THEN Len(s) ELSE MinOf(at) - 1
    IN  LineText(s, <<from, to>>)

\* The non-blank lines of a text, without the blanks around them, in order.
InkLines(s) ==
    SelectSeq([n \in 1..(Cardinality(Newlines(s)) + 1) |-> NthLine(s, n)],
              LAMBDA t : t # <<>>)

\* The last MAX_LOGS entries of a sequence.
Recent(q) == IF Len(q) > MAX_LOGS THEN SubSeq(q, Len(q) - MAX_LOGS + 1, Len(q)) ELSE q

\* A text up to its last newline, and what follows it.
Terminated(s) == IF Newlines(s) = {} THEN <<>> ELSE SubSeq(s, 1, MaxOf(Newlines(s)))

Unterminated(s) ==
    IF Newlines(s) = {} THEN s ELSE SubSeq(s, MaxOf(Newlines(s)) + 1, Len(s))

\* C19: the captured path, the stdout log and the partial-line buffer of a
\* run are functions of the bytes its child has written to stdout so far,
\* decoded as one text, whatever the chunks they came in (a chunk may end
\* anywhere, inside a line or inside a character): while the child runs,
\* the last path line and the non-blank lines of the terminated part, and
\* the unterminated rest as buffer; after close, the last path line and
\* the non-blank lines of the whole text.
C19_ChunkingIndependent ==
    \A r \in Runs :
        request[r].route = "process"
        => LET text == Decode(child[r].raw)
               seen == IF pc[r] = "closed" THEN text ELSE Terminated(text)
           IN  /\ finalFilePath[r] = LastPath(seen)
               /\ logs[r] = Recent(InkLines(seen))
               /\ stdoutBuffer[r] = Unterminated(text)

\* C20: the stderr log of a closed run holds the non-blank lines of the
\* text its child wrote to stderr, one entry for each line, whatever the
\* chunks the text came in.
C20_StderrByLine ==
    \A r \in Runs :
        ClosedProcess(r) => errorLogs[r] = Recent(InkLines(child[r].err))

(***************************************************************************)
(* Standard error and the captured path.                                   *)
(***************************************************************************)

\* A step in which the child of request r delivers data on its standard
\* error.
StderrStep(r) == child'[r].err # child[r].err

\* C21: no data on standard error changes the captured path: a step that
\* delivers stderr data to a run, a path line included, leaves the run's
\* captured path and its partial stdout line as they were, whatever stdout
\* events came before it.
C21_StderrKeepsPath ==
    [][\A r \in Runs :
        StderrStep(r)
        => /\ finalFilePath'[r] = finalFilePath[r]
           /\ stdoutBuffer'[r] = stdoutBuffer[r]
           /\ logs'[r] = logs[r]]_vars

\* A path line arrived on stderr, and was logged there, after stdout had
\* named another file: the captured path is still the one from stdout.
C21_Witness ==
    \E r \in Runs :
        /\ request[r].route = "process"
        /\ \E k \in 1..Len(errorLogs[r]) : errorLogs[r][k] = PathA
        /\ finalFilePath[r] = PathDot

(***************************************************************************)
(* The two logs of a run.                                                  *)
(***************************************************************************)

\* What follows the first n pieces of a text.
After(s, n) == SubSeq(s, n + 1, Len(s))

\* The lines a step appends to the stdout log of request r: at a data
\* event the lines that the event completes, at close the partial line
\* left over; and the lines it appends to the stderr log: the pieces of
\* the data of the event.
OutAppended(r) ==
    IF pc[r] = "exited" /\ pc'[r] = "closed" THEN InkLines(stdoutBuffer[r])
    ELSE IF child'[r].out # child[r].out
    THEN InkLines(Terminated(stdoutBuffer[r]
                             \o After(child'[r].out, Len(child[r].out))))
    ELSE <<>>

ErrAppended(r) == InkLines(After(child'[r].err, Len(child[r].err)))

\* C22: each of the two logs of a run never holds more than MAX_LOGS
\* entries, and after a step has appended lines to a log it holds the most
\* recent MAX_LOGS of its former entries followed by the non-blank trimmed
\* lines appended, in the order of arrival: the oldest leave first.
C22_LogsBounded ==
    /\ [](\A r \in Runs : Len(logs[r]) <= MAX_LOGS /\ Len(errorLogs[r]) <= MAX_LOGS)
    /\ [][\A r \in Runs :
            request[r].route = "process"
            => /\ logs'[r] = Recent(logs[r] \o OutAppended(r))
               /\ errorLogs'[r] = Recent(errorLogs[r] \o ErrAppended(r))]_vars

\* Both logs are full and have evicted: after the lines "1" to "100" on
\* each stream, two more lines on stdout and a piece on stderr.
C22_Witness ==
    \E r \in Runs :
        /\ Len(logs[r]) = MAX_LOGS
        /\ logs[r][1] = <<"3">>
        /\ logs[r][MAX_LOGS - 1] = <<"x">>
        /\ logs[r][MAX_LOGS] = PathDot
        /\ Len(errorLogs[r]) = MAX_LOGS
        /\ errorLogs[r][1] = <<"2">>
        /\ errorLogs[r][MAX_LOGS] = <<"e">>

(***************************************************************************)
(* Two runs at a time.                                                     *)
(***************************************************************************)

\* A step that is an event of request q: its arrival, data from its child,
\* the exit of its child or its close.
EventOf(q) == pc'[q] # pc[q] \/ child'[q] # child[q]

\* What the server holds for request r.
RunState(r) ==
    <<pc[r], request[r], child[r], cookieFile[r], finalFilePath[r], logs[r],
      errorLogs[r], stdoutBuffer[r], stdout[r], stderr[r], replies[r],
      notified[r], notifyState[r], execs[r]>>

RunStateNext(r) ==
    <<pc'[r], request'[r], child'[r], cookieFile'[r], finalFilePath'[r], logs'[r],
      errorLogs'[r], stdoutBuffer'[r], stdout'[r], stderr'[r], replies'[r],
      notified'[r], notifyState'[r], execs'[r]>>

\* The response a run gives when it is the only one: by the status of its
\* own child, the text its own child wrote and the file that text names.
AloneResponse(r) ==
    LET path == LastPath(child[r].out)
    IN  IF child[r].code # 0
        THEN [status |-> 500, error |-> "Download failed", file |-> <<>>]
        ELSE IF path # <<>> /\ path \in fs
        THEN [status |-> 200, error |-> "", file |-> LastSegment(path)]
        ELSE [status |-> 500, error |-> "Download failed - file not detected",
              file |-> <<>>]

\* C23: two concurrent requests share no run state.  An event of one
\* request changes nothing of what the server holds for the other; while
\* its child runs, the captured path, the partial line and the stdout log
\* of a run are those of the text its own child has written; and at its
\* close a run answers as it would alone, whatever the other run has done
\* in between.
C23_RunsIsolated ==
    /\ [](\A r \in Runs :
            (request[r].route = "process" /\ pc[r] \in {"running", "exited"})
            => /\ finalFilePath[r] = LastPath(Terminated(child[r].out))
               /\ stdoutBuffer[r] = Unterminated(child[r].out)
               /\ logs[r] = InkLines(Terminated(child[r].out)))
    /\ [][\A r \in Runs :
            /\ \A q \in Runs \ {r} : EventOf(q) => RunStateNext(r) = RunState(r)
            /\ Closing(r)
               => /\ Len(replies'[r]) = 1
                  /\ replies'[r][1].status = AloneResponse(r).status
                  /\ replies'[r][1].error = AloneResponse(r).error
                  /\ replies'[r][1].file = AloneResponse(r).file]_vars

\* Two runs whose events interleaved: each child wrote the head of its
\* path line, then each wrote the tail; one run succeeded and the other
\* failed.
C23_Witness ==
    /\ ClosedProcess(1) /\ ClosedProcess(2)
    /\ child[1].out = child[2].out
    /\ finalFilePath[1] = PathB /\ finalFilePath[2] = PathB
    /\ child[1].code = 0 /\ child[2].code = 1
    /\ replies[1] = <<ReplySuccess(<<"b", ".", "w", "a", "v">>)>>
    /\ replies[2][1].error = "Download failed"

\* C24: distinct identifiers give distinct cookie files, and a request
\* whose cookie file no other request shares keeps it on disk from its
\* spawn to its own close, whatever other requests of either route start
\* and close in between.
C24_CookieFilesApart ==
    /\ \A i \in CookieIds : \A j \in CookieIds \ {i} : CookiePath(i) # CookiePath(j)
    /\ \A r \in Runs :
        (/\ pc[r] \in {"running", "exited"}
         /\ cookieFile[r] # <<>>
         /\ \A q \in Runs \ {r} : cookieFile[q] # cookieFile[r])
        => cookieFile[r] \in fs

\* A download and an info request, both with cookies: the download has
\* closed and removed its file, the file of the info request whose child
\* still runs is on disk.
C24_Witness ==
    /\ request[1].route = "process" /\ pc[1] = "closed"
    /\ request[2].route = "info" /\ pc[2] = "running"
    /\ cookieFile[1] # <<>> /\ cookieFile[2] # <<>>
    /\ cookieFile[1] # cookieFile[2]
    /\ cookieFile[1] \notin fs
    /\ cookieFile[2] \in fs

(***************************************************************************)
(* Failures inside the hooks.                                              *)
(***************************************************************************)

\* Every request of an execution has been answered with a failure.
AllFailed(e) == e.reqs # <<>> /\ \A k \in 1..Len(e.reqs) : e.reqs[k].st = "failed"

\* C25: an execute of the chat-notify or of the generic-webhook hook never
\* rejects, and once every one of its posts has failed it has fulfilled; a
\* notify that has completed has seen these two hooks fulfilled.
C25_DeliveryFailuresCaught ==
    \A n \in Runs : \A e \in ExecsOf(n) :
        IsUrlHook(e)
        => /\ e.st # "rejected"
           /\ AllFailed(e) => e.st = "fulfilled"
           /\ notifyState[n] = "resolved" => e.st = "fulfilled"

\* A notify has completed although the one post of the chat-notify hook and
\* the one post of the generic-webhook hook both failed: both hooks have
\* fulfilled.
C25_Witness ==
    \E n \in Runs :
        /\ hooks = RegisteredHooks
        /\ notifyState[n] = "resolved"
        /\ execs[n][2].hook = "SlackHook" /\ execs[n][3].hook = "WebhookHook"
        /\ AllFailed(execs[n][2]) /\ AllFailed(execs[n][3])
        /\ execs[n][2].st = "fulfilled" /\ execs[n][3].st = "fulfilled"

\* An execute of the social-publish hook that went past its guard.
Publishes(e) ==
    e.hook = "TiktokHook" /\ (hookFields.enabled \/ TiktokConfigToken(e.config) # "")

\* The ways a publication fails: the file cannot be read, the init request
\* fails, the answer to it names no upload url, the upload fails.
StatFailed(e) == Publishes(e) /\ e.result.filePath \notin fs

InitFailed(e) == Len(e.reqs) >= 1 /\ e.reqs[1].st = "failed"

NoUploadUrl(e) == Len(e.reqs) = 1 /\ e.reqs[1].st = "ok"

UploadFailed(e) == Len(e.reqs) = 2 /\ e.reqs[2].st = "failed"

\* C26: an execute of the social-publish hook that fails at any of its
\* steps rejects; the notify it belongs to never rejects for it, has
\* executed the chat-notify and the generic-webhook hook all the same, and
\* completes only when these have settled too.
C26_PublishFailureContained ==
    \A n \in Runs :
        /\ \A e \in ExecsOf(n) :
              (/\ e.hook = "TiktokHook"
               /\ StatFailed(e) \/ InitFailed(e) \/ NoUploadUrl(e) \/ UploadFailed(e))
              => e.st = "rejected"
        /\ (notifyState[n] # "none" /\ hooks = RegisteredHooks)
           => /\ notifyState[n] # "rejected"
              /\ Len(execs[n]) = 3
              /\ execs[n][2].hook = "SlackHook"
              /\ execs[n][3].hook = "WebhookHook"
              /\ notifyState[n] = "resolved"
                 => Settled(execs[n][2]) /\ Settled(execs[n][3])

\* The upload of a publication failed and its execute rejected, after
\* which the chat-notify and the generic-webhook hook delivered and the
\* notify completed.
C26_Witness ==
    \E n \in Runs :
        /\ notifyState[n] = "resolved"
        /\ execs[n][1].hook = "TiktokHook"
        /\ UploadFailed(execs[n][1])
        /\ execs[n][1].st = "rejected"
        /\ Posted(execs[n][2]) = <<"S0">> /\ execs[n][2].reqs[1].st = "ok"
        /\ Posted(execs[n][3]) = <<"W0">> /\ execs[n][3].reqs[1].st = "ok"

(***************************************************************************)
(* The order of the fan-out.                                               *)
(***************************************************************************)

\* A step in which the promise of invocation n settles.
Completes(n) == notifyState[n] = "pending" /\ notifyState'[n] # "pending"

\* C27: the promise of notify settles only in a step that finds every
\* execution settled, and after every step in which an execution settles
\* while another is still pending the promise is pending as before.
C27_NotifyAfterAllSettle ==
    [][\A n \in Runs :
        /\ Completes(n)
           => /\ \A e \in ExecsOf(n) : Settled(e)
              /\ execs'[n] = execs[n]
        /\ (/\ notifyState[n] = "pending"
            /\ \E i \in 1..Len(execs'[n]) : ~Settled(execs'[n][i]))
           => notifyState'[n] = "pending"]_vars

\* The social-publish hook has rejected at once, the generic-webhook hook
\* has settled, the chat-notify hook is still waiting for its post: the
\* promise of notify is pending.
C27_Witness ==
    \E n \in Runs :
        /\ hooks = RegisteredHooks
        /\ notifyState[n] = "pending"
        /\ execs[n][1].st = "rejected"
        /\ execs[n][2].st = "pending"
        /\ execs[n][3].st = "fulfilled" /\ AllFailed(execs[n][3])

(***************************************************************************)
(* The start of the process.                                               *)
(***************************************************************************)

\* The fields of the hooks once every init has run on the constructed
\* hooks.
Initialised == HookManagerInit(env, ConstructedFields(env))

\* C28: the hooks' fields are written in one step only, the step of start
\* that runs every init on the constructed hooks and after which the
\* server listens; the server never returns to its state before start; and
\* no request is accepted and no hook executed except by a listening
\* server whose hooks are initialised.
C28_InitBeforeExecute ==
    [][/\ (srv' # srv \/ hookFields' # hookFields)
          => /\ srv = "boot" /\ srv' = "listening"
             /\ hookFields = ConstructedFields(env)
             /\ hookFields' = Initialised
       /\ \A r \in Runs :
             (pc'[r] # pc[r] \/ execs'[r] # execs[r])
             => /\ srv = "listening"
                /\ hookFields = Initialised]_vars

\* A download has completed on a server started with the social-publish
\* hook configured: the hook was enabled by its init and its execute has
\* sent the init request with the default token.
C28_Witness ==
    \E r \in Runs :
        /\ srv = "listening"
        /\ hookFields.enabled
        /\ Len(execs[r]) = 3
        /\ execs[r][1].hook = "TiktokHook"
        /\ Len(execs[r][1].reqs) >= 1
        /\ execs[r][1].reqs[1].auth = "T0"

(***************************************************************************)
(* The time range of a request.                                            *)
(***************************************************************************)

\* C29: a child spawned with a range directive belongs to a request whose
\* start offset is below its end offset, neither of them negative.
C29_RangeOrdered ==
    \A r \in Runs :
        (Spawned(r) /\ HasOption(child[r].args, "--download-sections"))
        => /\ request[r].startTime[1] >= 0
           /\ request[r].endTime[1] >= 0
           /\ request[r].startTime[1] < request[r].endTime[1]

(***************************************************************************)
(* The guard of the social-publish hook.                                   *)
(***************************************************************************)

\* The hook was enabled at init: ENABLE_TIKTOK is 'true' and the
\* environment holds a default access token.
EnabledAtInit == env.ENABLE_TIKTOK = "true" /\ env.TIKTOK_ACCESS_TOKEN # ""

\* The access token of a per-request configuration, "" when it has none.
SuppliedToken(config) ==
    IF config # Undefined /\ config[1].tiktok # Undefined
    THEN config[1].tiktok[1].accessToken
    ELSE ""

\* C30: an execute of the social-publish hook starts an upload exactly
\* when the hook was enabled at init or the configuration of the request
\* supplies an access token.  An upload reads the file and, when the file
\* is there, opens with the init request, which carries the token of the
\* request if it supplies one and the default token otherwise; without an
\* upload the execute has fulfilled and has sent nothing.
C30_PublishGuard ==
    \A n \in Runs : \A e \in ExecsOf(n) :
        (e.hook = "TiktokHook" /\ srv # "boot")
        => LET uploads == EnabledAtInit \/ SuppliedToken(e.config) # ""
               token == IF SuppliedToken(e.config) # "" THEN SuppliedToken(e.config)
                        ELSE env.TIKTOK_ACCESS_TOKEN
           IN  /\ uploads /\ e.result.filePath \in fs
                  => /\ Len(e.reqs) >= 1
                     /\ e.reqs[1].method = "POST"
                     /\ e.reqs[1].url = TiktokInitUrl
                     /\ e.reqs[1].auth = token
               /\ uploads /\ e.result.filePath \notin fs
                  => e.reqs = <<>> /\ e.st = "rejected"
               /\ ~uploads => e.reqs = <<>> /\ e.st = "fulfilled"

\* The hook is disabled (ENABLE_TIKTOK is 'false') and holds a default
\* token, the request supplies its own: the upload has begun with the
\* token of the request.
C30_Witness ==
    \E n \in Runs :
        /\ ~EnabledAtInit
        /\ env.TIKTOK_ACCESS_TOKEN = "T0"
        /\ Len(execs[n]) = 1
        /\ execs[n][1].hook = "TiktokHook"
        /\ execs[n][1].config = Some(CfgTiktok)
        /\ Len(execs[n][1].reqs) >= 1
        /\ execs[n][1].reqs[1].auth = "T1"

(***************************************************************************)
(* The answer comes, and comes at close.                                   *)
(***************************************************************************)

\* C31: while the child of an accepted request has not closed no response
\* has been sent, however long the child runs; and, the child ending at
\* some time, every accepted request is answered.
C31_AnsweredAtClose ==
    /\ [](\A r \in Runs :
            (Accepted(r) /\ pc[r] \in {"running", "exited"}) => replies[r] = <<>>)
    /\ \A r \in Runs :
          (Accepted(r) /\ pc[r] = "running") ~> (replies[r] # <<>>)

\* A request whose child wrote all the data the model lets it write, ended
\* with status 0 without a file, and was answered at close.
C31_Witness ==
    \E r \in Runs :
        /\ ClosedProcess(r)
        /\ child[r].n = MaxData
        /\ child[r].code = 0
        /\ replies[r] = <<ReplyNotDetected>>

\* C32: the exit status is tested before the captured path: when the child
\* closes with any status other than 0, null (killed by a signal) included,
\* while the last qualifying path line of its stdout names a file that is
\* on disk, the one response is still the "Download failed" failure, never
\* the success response, notify is not called and no hook is executed.
C32_StatusBeforePath ==
    [][\A r \in Runs :
        (/\ Closing(r)
         /\ child[r].code # 0
         /\ LastPath(child[r].out) # <<>>
         /\ LastPath(child[r].out) \in fs)
        => /\ Len(replies'[r]) = 1
           /\ replies'[r][1].status = 500
           /\ replies'[r][1].error = "Download failed"
           /\ replies'[r][1].file = <<>>
           /\ notified'[r] = <<>>
           /\ execs'[r] = <<>>
           /\ notifyState'[r] = "none"]_vars

\* A run killed by a signal after it had printed the path of a file it had
\* written, answered with the failure and followed by no notification.
C32_Witness ==
    \E r \in Runs :
        /\ ClosedProcess(r)
        /\ child[r].code = NullCode
        /\ LastPath(child[r].out) = PathB
        /\ PathB \in fs
        /\ replies[r][1].error = "Download failed"
        /\ notified[r] = <<>>

\* C33: when the per-request list of the chat-notify or generic-webhook
\* hook has at least one entry and every entry has an empty url, execute
\* resolves no target: it sends no request, it does not fall back to the
\* default url even when the hook was enabled with one at init, and it
\* completes at once.
C33_EmptyUrlsNoFallback ==
    \A n \in Runs : \A e \in ExecsOf(n) :
        (/\ IsUrlHook(e)
         /\ Listed(e.hook, e.config) # <<>>
         /\ \A k \in 1..Len(Listed(e.hook, e.config)) : Listed(e.hook, e.config)[k] = "")
        => /\ e.reqs = <<>>
           /\ e.st = "fulfilled"

\* The chat-notify hook, enabled at init with a default url, executed with
\* a list of two entries without url: nothing is posted.
C33_Witness ==
    \E n \in Runs :
        /\ env = EnvAll
        /\ hookFields.webhookUrl = "S0"
        /\ Len(execs[n]) = 1
        /\ execs[n][1].hook = "SlackHook"
        /\ execs[n][1].config = Some(CfgEmptyUrls)
        /\ execs[n][1].reqs = <<>>
        /\ execs[n][1].st = "fulfilled"

(***************************************************************************)
(* The tool as its arguments instruct it: it writes one file under the     *)
(* output template, with the extension of the format arguments, and        *)
(* prints a progress line and then the path of that file.                  *)
(***************************************************************************)

\* One request body for each mode, with and without a sub-folder.
ModeRequests ==
    { [PlainRequest EXCEPT !.url = u, !.audioOnly = a, !.subFolder = f] :
        u \in {UrlVideo, UrlSound},
        a \in {Undefined, Some(TRUE)},
        f \in {Undefined, Some(<<"s">>)} }

\* The extension the format arguments ask for: that of --audio-format
\* under -x, else that of --merge-output-format.
InstructedExt(a) ==
    <<".">> \o (IF HasOption(a, "-x") THEN OptionValue(a, "--audio-format")
                ELSE OptionValue(a, "--merge-output-format"))

ToolTitle == <<"t">>

\* The output template of arguments a with its title and its extension
\* filled in.
HonouredPath(a) ==
    LET template == OptionValue(a, "-o")
    IN  SubSeq(template, 1, Len(template) - 1) \o ToolTitle \o InstructedExt(a)

\* What --print after_move:filepath gives after a progress line.
ToolOutput(a) == <<"x", NL>> \o HonouredPath(a) \o <<NL>>

\* The tool writes the next pieces of its output, as many as it likes,
\* delivered as one data event.
ToolPrints(r) ==
    /\ pc[r] = "running"
    /\ \E k \in 1..(Len(ToolOutput(child[r].args)) - Len(child[r].raw)) :
          StdoutData(r, SubSeq(ToolOutput(child[r].args),
                               Len(child[r].raw) + 1, Len(child[r].raw) + k))

\* The tool has written its file and printed its path, with or without the
\* final newline, and exits with status 0.
ToolDone(r) ==
    LET whole == ToolOutput(child[r].args)
    IN  /\ pc[r] = "running"
        /\ Len(child[r].raw) >= Len(whole) - 1
        /\ ChildExit(r, 0, {HonouredPath(child[r].args)})

\* The tool gives up with status 1 and writes no file.
ToolFails(r) == ChildExit(r, 1, {})

InitModes == Init /\ env = EnvNone

NextModes ==
    \/ Start
    \/ \E r \in Solo, rq \in ModeRequests, id \in CookieIds : Process(r, rq, id)
    \/ \E r \in Solo : ToolPrints(r)
    \/ \E r \in Solo : ToolDone(r)
    \/ \E r \in Solo : ToolFails(r)
    \/ \E r \in Solo : Close(r)

SpecModes == InitModes /\ [][NextModes]_vars

\* The extension each mode stands for.
ModeExt(rq) ==
    IF NamesSoundCloud(rq.url) THEN Wav
    ELSE IF rq.audioOnly = Some(TRUE) THEN Mp3
    ELSE Mp4

\* C34: in every mode the extension the tool is instructed to produce is
\* one the line classifier accepts (mp4 for video, mp3 for audio from
\* another source than SoundCloud, wav for SoundCloud), so a run whose tool
\* writes the file its arguments ask for and prints its path is never
\* answered with the "file not detected" failure: closed with status 0 it
\* is answered with the success naming that file.
C34_InstructedExtensionAccepted ==
    \A r \in Runs :
        Spawned(r)
        => LET a == child[r].args
           IN  /\ InstructedExt(a) = ModeExt(request[r])
               /\ InstructedExt(a) \in {Mp4, Mp3, Wav}
               /\ Qualifies(HonouredPath(a))
               /\ pc[r] = "closed" => replies[r] # <<ReplyNotDetected>>
               /\ (pc[r] = "closed" /\ child[r].code = 0)
                  => replies[r] = <<ReplySuccess(ToolTitle \o InstructedExt(a))>>

\* A SoundCloud download into a sub-folder whose path line arrived in two
\* pieces and without a final newline, answered with the wav file.
C34_Witness ==
    \E r \in Runs :
        /\ ClosedProcess(r)
        /\ NamesSoundCloud(request[r].url)
        /\ request[r].subFolder = Some(<<"s">>)
        /\ child[r].code = 0
        /\ child[r].n = 2
        /\ child[r].out = <<"x", NL>> \o HonouredPath(child[r].args)
        /\ replies[r] = <<ReplySuccess(<<"t", ".", "w", "a", "v">>)>>

(***************************************************************************)
(* Two invocations of the hooks at the same time, each with its own        *)
(* configuration.                                                          *)
(***************************************************************************)

FanConfigs == {Undefined, Some(CfgWebhook2), Some(CfgSlackMixed), Some(CfgTiktok)}

FanResult == ResultOf(PathA, UrlVideo)

InitFan ==
    /\ env \in Envs
    /\ srv = "boot"
    /\ hooks = RegisteredHooks
    /\ hookFields = ConstructedFields(env)
    /\ fs = {PathA}
    /\ InitRuns

NextFan ==
    \/ InitHooks
    \/ \E n \in Runs, config \in FanConfigs : UnitNotify(n, FanResult, config)
    \/ \E n \in Runs, i \in 1..Len(RegisteredHooks), config \in FanConfigs :
          UnitExecute(n, RegisteredHooks[i], FanResult, config)
    \/ \E n \in Runs, outcome \in {"ok", "failed"} :
          \E i \in 1..Len(execs[n]) : \E j \in 1..Len(execs[n][i].reqs) :
          HttpSettle(n, i, j, outcome)
    \/ \E n \in Runs : NotifyJoin(n)

SpecFan == InitFan /\ [][NextFan]_vars

\* The token the social-publish hook received from the environment.
DefaultToken == env.TIKTOK_ACCESS_TOKEN

\* The token an execution was given in its own configuration, "" if none.
OwnToken(e) ==
    IF e.config = Undefined \/ e.config[1].tiktok = Undefined THEN ""
    ELSE e.config[1].tiktok[1].accessToken

\* Execution e addresses what its own configuration and the defaults of
\* the environment give, and nothing else.
OwnTargets(e) ==
    /\ IsUrlHook(e) => Posted(e) = TargetsAmended(e.hook, e.config)
    /\ (e.hook = "TiktokHook" /\ e.reqs # <<>>)
       => e.reqs[1].auth = (IF OwnToken(e) # "" THEN OwnToken(e) ELSE DefaultToken)

\* C35: no execute changes the process-wide fields of a hook: once init is
\* done the enabled flag, the default urls and the default token stay what
\* init made of the environment through every execute and every delivery;
\* each execution, also while another invocation is in progress with other
\* overrides, addresses what its own configuration and those defaults
\* give; and a step of one invocation leaves the executions of the other
\* as they were.
C35_ExecuteKeepsDefaults ==
    /\ [](srv = "hooksReady"
          => /\ hookFields = HookManagerInit(env, ConstructedFields(env))
             /\ \A n \in Runs : \A e \in ExecsOf(n) : OwnTargets(e))
    /\ [][/\ srv = "hooksReady" => hookFields' = hookFields
          /\ \A n, m \in Runs :
                (n # m /\ execs'[n] # execs[n])
                => /\ execs'[m] = execs[m]
                   /\ notified'[m] = notified[m]
                   /\ notifyState'[m] = notifyState[m]]_vars

\* Two executions of the chat-notify hook in flight at once, the first with
\* a url of its own and the second with none: the first posts to its url,
\* the second to the default of the environment.
C35_Witness ==
    /\ env = EnvAll
    /\ Len(execs[1]) = 1 /\ Len(execs[2]) = 1
    /\ execs[1][1].hook = "SlackHook" /\ execs[2][1].hook = "SlackHook"
    /\ execs[1][1].config = Some(CfgSlackMixed)
    /\ execs[2][1].config = Undefined
    /\ execs[1][1].st = "pending" /\ execs[2][1].st = "pending"
    /\ Posted(execs[1][1]) = <<"S1">>
    /\ Posted(execs[2][1]) = <<"S0">>
    /\ hookFields.webhookUrl = "S0"

(***************************************************************************)
(* A tool that cannot be started.                                          *)
(***************************************************************************)

\* spawn found no program to run: the child emits 'error' on the next
\* tick.  The handler has registered listeners for the data events and for
\* 'close' only, and the process has no handler for uncaught exceptions,
\* so the emit throws in the event loop and the process ends: the promise
\* of the request is never resolved, no reply is written, and nothing the
\* close handler would have done is done.
SpawnError(r) ==
    /\ pc[r] = "running"
    /\ request[r].route = "process"
    /\ child[r].n = 0
    /\ pc' = [pc EXCEPT ![r] = "spawnFailed"]
    /\ srv' = "crashed"
    /\ UNCHANGED <<env, hooks, hookFields, fs, request, child, closureVars,
                   replies, fanVars>>

NextSpawn ==
    \/ Start
    \/ \E r \in Solo, rq \in Requests, id \in CookieIds : Process(r, rq, id)
    \/ \E r \in Solo : SpawnError(r)
    \/ \E r \in Solo, data \in PairOutChunks : StdoutData(r, data)
    \/ ChildCloses
    \/ CloseHandled

InitSpawn == Init /\ env = EnvNone

SpecSpawn == InitSpawn /\ [][NextSpawn]_vars

\* C36: a request whose tool could not be started is answered with one
\* failure response, and the cookie file written for it is no longer on
\* disk.
C36_SpawnErrorAnswered ==
    \A r \in Runs :
        pc[r] = "spawnFailed"
        => /\ Len(replies[r]) = 1
           /\ replies[r][1].status = 500
           /\ cookieFile[r] # <<>> => cookieFile[r] \notin fs

====
